---- MODULE Spec2Model ----
(***************************************************************************)
(* Marketing_Creatives: the renderer command lines (LLM-direct and         *)
(* AI-image + OCR) in their six on-disk variants, as one state machine of  *)
(* a single process run, together with the schema mappers they call.       *)
(*                                                                         *)
(* Variants (one html_generator.py each):                                  *)
(*   llm_nested  src/Merged Approaches/.../Approach-1   (nested mapper)    *)
(*   llm_flat    src/Merged_Approaches/.../Approach-1   (flat mapper)      *)
(*   img_hybrid  src/Merged Approaches/.../Approach-2   (hybrid mapper)    *)
(*   img_clean   src/Merged Approaches/.../Approach-5   (nested mapper)    *)
(*   img_memory  src/Merged_Approaches/.../Approach-2   (flat mapper)      *)
(*   img_disk    src/Merged_Approaches/.../Approach-5   (flat mapper)      *)
(***************************************************************************)
EXTENDS Integers, Sequences, FiniteSets, TLC

VARIABLES variant, env, argv, pc, io, exitStatus, steps, calls,
          row, prompt, schema, fetched, doc,
          layout, post, phase1, duo

vars == <<variant, env, argv, pc, io, exitStatus, steps, calls,
          row, prompt, schema, fetched, doc, layout, post,
          phase1, duo>>

LlmVariants == {"llm_nested", "llm_flat"}

ImageVariants == {"img_hybrid", "img_clean", "img_memory", "img_disk"}

Variants == LlmVariants \cup ImageVariants

NestedMappers == {"llm_nested", "img_clean"}

FlatMappers == {"llm_flat", "img_memory", "img_disk"}

(***************************************************************************)
(* JSON values as Python holds them after the database client decoded the  *)
(* row.  Every value has the same record shape so that values of different *)
(* Python types can be compared: t is the type, s the text of a str, n the *)
(* number of a num, e the items of a list or the entries of a dict (in     *)
(* insertion order), k the key under which an entry sits in its dict.      *)
(***************************************************************************)
Null == [t |-> "null", k |-> "", s |-> "", n |-> 0, e |-> <<>>]

Str(x) == [t |-> "str", k |-> "", s |-> x, n |-> 0, e |-> <<>>]

Num(x) == [t |-> "num", k |-> "", s |-> "", n |-> x, e |-> <<>>]

List(items) == [t |-> "list", k |-> "", s |-> "", n |-> 0, e |-> items]

Dict(entries) == [t |-> "dict", k |-> "", s |-> "", n |-> 0, e |-> entries]

Entry(key, v) == [v EXCEPT !.k = key]

Value(entry) == [entry EXCEPT !.k = ""]

IsList(v) == v.t = "list"

IsDict(v) == v.t = "dict"

IsStr(v) == v.t = "str"

IsNone(v) == v.t = "null"

\* Python truthiness of a value (if x:, not x).
Truthy(v) ==
    CASE v.t = "null" -> FALSE
      [] v.t = "str" -> v.s # ""
      [] v.t = "num" -> v.n # 0
      [] OTHER -> Len(v.e) > 0

\* key in d
Has(d, key) == \E i \in 1..Len(d.e) : d.e[i].k = key

\* d.get(key, default) on a dict d
Get(d, key, default) ==
    IF Has(d, key)
    THEN Value(d.e[CHOOSE i \in 1..Len(d.e) : d.e[i].k = key])
    ELSE default

\* list(d.values())
Values(d) == [i \in 1..Len(d.e) |-> Value(d.e[i])]

(***************************************************************************)
(* json.loads on the texts the model feeds it.  A text that is not a JSON  *)
(* document (the empty string, plain words) raises JSONDecodeError.        *)
(***************************************************************************)
JsonLoads(text) ==
    CASE text = "null" -> [ok |-> TRUE, v |-> Null]
      [] text = "5" -> [ok |-> TRUE, v |-> Num(5)]
      [] text = "[]" -> [ok |-> TRUE, v |-> List(<<>>)]
      [] text = "{}" -> [ok |-> TRUE, v |-> Dict(<<>>)]
      [] text = "\"story\"" -> [ok |-> TRUE, v |-> Str("story")]
      [] text = "[\"#111\",\"#222\"]" ->
            [ok |-> TRUE, v |-> List(<<Str("#111"), Str("#222")>>)]
      [] text = "{\"primary\":\"#111\",\"accent\":\"#222\"}" ->
            [ok |-> TRUE, v |-> Dict(<<Entry("primary", Str("#111")),
                                       Entry("accent", Str("#222"))>>)]
      [] text = "[{\"text\":\"Sale\"}]" ->
            [ok |-> TRUE, v |-> List(<<Dict(<<Entry("text", Str("Sale"))>>)>>)]
      [] OTHER -> [ok |-> FALSE, v |-> Null]

(***************************************************************************)
(* Outcome of a call that may raise: ok with a value, or the exception.    *)
(***************************************************************************)
Ok(v) == [ok |-> TRUE, exc |-> "", v |-> v]

Raise(exc) == [ok |-> FALSE, exc |-> exc, v |-> Null]

\* mapped_data[key] = v on a dict
DictSet(d, key, v) ==
    IF Has(d, key)
    THEN [d EXCEPT !.e = [i \in 1..Len(d.e) |->
                IF d.e[i].k = key THEN Entry(key, v) ELSE d.e[i]]]
    ELSE [d EXCEPT !.e = Append(d.e, Entry(key, v))]

\* for x in v: the loop raises TypeError on None and on a number.
Iterable(v) == v.t \in {"list", "dict", "str"}

\* The elements of a loop over v that pass "x is not None and isinstance(x, dict)":
\* a dict yields its keys and a str its characters, none of which is a dict.
DictItems(v) == IF IsList(v) THEN SelectSeq(v.e, IsDict) ELSE <<>>

DefaultWidth == 1080

DefaultHeightSquare == 1080

DefaultHeightTall == 1920

Dimensions(w, h) == Dict(<<Entry("width", Num(w)), Entry("height", Num(h))>>)

DefaultBrandLogo ==
    Dict(<<Entry("url", Null), Entry("text_alt", Str("Brand Logo")),
           Entry("size", Str("medium")), Entry("position", Str("top-left"))>>)

DefaultBackground ==
    Dict(<<Entry("color", Str("#ffffff")), Entry("image", Null),
           Entry("description", Str(""))>>)

(***************************************************************************)
(* safe_get_field of the flat mappers: every str is handed to json.loads;  *)
(* a parse failure or a None gives the default.                            *)
(***************************************************************************)
safe_get_field(data_dict, field_name, default_value) ==
    LET value == Get(data_dict, field_name, Null)
        parsed == JsonLoads(value.s)
    IN  IF IsStr(value)
        THEN IF parsed.ok
             THEN (IF IsNone(parsed.v) THEN default_value ELSE parsed.v)
             ELSE default_value
        ELSE IF IsNone(value) THEN default_value ELSE value

(***************************************************************************)
(* safe_json_load of the hybrid mapper: as above, but a parsed null is     *)
(* returned as None.                                                       *)
(***************************************************************************)
safe_json_load(data, data_field, default_value) ==
    LET value == Get(data, data_field, Null)
        parsed == JsonLoads(value.s)
    IN  IF IsStr(value)
        THEN IF parsed.ok THEN parsed.v ELSE default_value
        ELSE IF IsNone(value) THEN default_value ELSE value

\* The url of the first imagery entry of type "background" with a truthy url.
BackgroundUrl(imagery) ==
    LET hit(i) == /\ IsDict(imagery.e[i])
                  /\ Get(imagery.e[i], "type", Null) = Str("background")
                  /\ Truthy(Get(imagery.e[i], "url", Null))
    IN  IF IsList(imagery) /\ \E i \in 1..Len(imagery.e) : hit(i)
        THEN Get(imagery.e[CHOOSE i \in 1..Len(imagery.e) :
                    hit(i) /\ \A j \in 1..(i - 1) : ~hit(j)], "url", Null)
        ELSE Null

FlatTextBlock(block) ==
    Dict(<<Entry("font", Get(block, "font_family", Str("Inter"))),
           Entry("size", Get(block, "font_size", Str("medium"))),
           Entry("text", Get(block, "text", Str(""))),
           Entry("color", Get(block, "color", Str("#000000"))),
           Entry("position", Get(block, "alignment", Str("center")))>>)

FlatCta(v, cta) ==
    LET base == <<Entry("text", Get(cta, "text", Str("Shop Now"))),
                  Entry("color", Get(cta, "text_color", Str("#ffffff"))),
                  Entry("position", Str("bottom-center")),
                  Entry("background", Get(cta, "bg_color", Str("#007bff")))>>
    IN  IF v = "llm_flat"
        THEN Dict(base \o <<Entry("style", Get(cta, "style", Str("primary"))),
                            Entry("url", Get(cta, "url", Str("https://example.com")))>>)
        ELSE Dict(base)

FlatDecorative(v, element) ==
    Dict(<<Entry("shape_type", Get(element, "shape_type", Str("none"))),
           Entry("color", Get(element, "color", Str("#cccccc"))),
           Entry("animation", IF v = "llm_flat"
                              THEN Get(element, "animation", Str("subtle"))
                              ELSE Str("subtle"))>>)

MappedBrandLogo(logo, sizeFromRaw) ==
    IF IsDict(logo)
    THEN Dict(<<Entry("url", Get(logo, "url", Null)),
                Entry("text_alt", Get(logo, "text_alt", Str("Brand Logo"))),
                Entry("size", IF sizeFromRaw
                              THEN Get(logo, "size", Str("medium"))
                              ELSE Str("medium")),
                Entry("position", IF sizeFromRaw
                                  THEN Get(logo, "position", Str("top-left"))
                                  ELSE Str("top-left"))>>)
    ELSE DefaultBrandLogo

\* The mapped_data dict every mapper builds, wrapped as the mapper's result.
Schema(raw, campaign_prompt, placement, dimensions, format_val, canvas) ==
    Dict(<<Entry("campaign_id", Get(raw, "campaign_id", Null)),
           Entry("campaign_prompt", campaign_prompt),
           Entry("placement", placement),
           Entry("dimensions", dimensions),
           Entry("format", format_val),
           Entry("Canvas", canvas)>>)

CanvasOf(bg, grid, bleed, url, blocks, ctas, logo, colors, slogans, legal, deco) ==
    Dict(<<Entry("background", bg),
           Entry("layout_grid", grid),
           Entry("bleed_safe_margins", bleed),
           Entry("Imagery", Dict(<<Entry("background_image_url", url)>>)),
           Entry("Text_Blocks", blocks),
           Entry("cta_buttons", ctas),
           Entry("brand_logo", logo),
           Entry("brand_colors", colors),
           Entry("slogans", slogans),
           Entry("legal_disclaimer", legal),
           Entry("decorative_elements", deco)>>)

(***************************************************************************)
(* Nested mapper (llm_nested, img_clean): everything is read from the      *)
(* creative_spec column; only brand_colors and decorative_elements are     *)
(* normalised, the other fields are passed through as stored.  A .get on a *)
(* value that is not a dict raises AttributeError.                         *)
(***************************************************************************)
MapNested(raw, campaign_prompt) ==
    LET full_creative_spec == Get(raw, "creative_spec", Dict(<<>>))
        canvas_data == Get(full_creative_spec, "Canvas", Dict(<<>>))
        imagery == Get(canvas_data, "Imagery", Dict(<<>>))
        colors == Get(canvas_data, "brand_colors", List(<<>>))
        decorative == Get(canvas_data, "decorative_elements", List(<<>>))
    IN  IF ~IsDict(full_creative_spec) THEN Raise("AttributeError")
        ELSE IF ~IsDict(canvas_data) THEN Raise("AttributeError")
        ELSE IF ~IsDict(imagery) THEN Raise("AttributeError")
        ELSE Ok(Schema(raw, campaign_prompt,
                Get(full_creative_spec, "placement", Str("social_media")),
                Get(full_creative_spec, "dimensions",
                    Dimensions(DefaultWidth, DefaultHeightSquare)),
                Get(full_creative_spec, "format", Str("static")),
                CanvasOf(Get(canvas_data, "background", DefaultBackground),
                         Get(canvas_data, "layout_grid", Str("free")),
                         Get(canvas_data, "bleed_safe_margins", Str("")),
                         Get(imagery, "background_image_url", Null),
                         Get(canvas_data, "Text_Blocks", List(<<>>)),
                         Get(canvas_data, "cta_buttons", List(<<>>)),
                         Get(canvas_data, "brand_logo", DefaultBrandLogo),
                         IF IsList(colors) THEN colors
                         ELSE IF IsDict(colors) THEN List(Values(colors))
                         ELSE List(<<>>),
                         Get(canvas_data, "slogans", Null),
                         Get(canvas_data, "legal_disclaimer", Null),
                         IF IsList(decorative) THEN decorative ELSE List(<<>>))))

\* The hybrid mapper's brand_colors for a dict: primary, accent, secondary.
FixedOrderColors(colors) ==
    (IF Has(colors, "primary") THEN <<Get(colors, "primary", Null)>> ELSE <<>>)
    \o (IF Has(colors, "accent") THEN <<Get(colors, "accent", Null)>> ELSE <<>>)
    \o (IF Has(colors, "secondary") THEN <<Get(colors, "secondary", Null)>> ELSE <<>>)

HybridTextBlock(block) ==
    Dict(<<Entry("font", Get(block, "font_family", Str("sans-serif"))),
           Entry("size", Get(block, "size", Str("medium"))),
           Entry("text", Get(block, "text", Str(""))),
           Entry("color", Get(block, "color", Str("#000000"))),
           Entry("position", Get(block, "position", Str("center")))>>)

HybridCta(cta) ==
    Dict(<<Entry("text", Get(cta, "text", Str(""))),
           Entry("color", Get(cta, "text_color", Str("#ffffff"))),
           Entry("position", Get(cta, "position", Str("bottom-center"))),
           Entry("background", Get(cta, "bg_color", Str("#007bff")))>>)

HybridDecorative(element) ==
    Dict(<<Entry("shape_type", Get(element, "shape_type", Str("geometric"))),
           Entry("color", Get(element, "color", Str("#cccccc"))),
           Entry("animation", Get(element, "animation", Str("subtle")))>>)

HybridLogo(logo) == MappedBrandLogo(logo, TRUE)

(***************************************************************************)
(* Hybrid mapper (img_hybrid): scalars by plain .get on the row, content   *)
(* columns through safe_json_load, the image url from creative_spec.       *)
(***************************************************************************)
MapHybrid(raw, campaign_prompt) ==
    LET background == Get(raw, "background", Dict(<<>>))
        creative_spec_data == Get(raw, "creative_spec", Dict(<<>>))
        canvas_from_spec == Get(creative_spec_data, "Canvas", Dict(<<>>))
        imagery == Get(canvas_from_spec, "Imagery", Dict(<<>>))
        text_blocks == safe_json_load(raw, "text_blocks", List(<<>>))
        cta_buttons == safe_json_load(raw, "cta_buttons", List(<<>>))
        colors == safe_json_load(raw, "brand_colors", List(<<>>))
        decorative == safe_json_load(raw, "decorative_elements", List(<<>>))
        slogans_raw == safe_json_load(raw, "slogan", Null)
        legal_raw == safe_json_load(raw, "legal_disclaimer", Null)
    IN  IF ~IsDict(background) THEN Raise("AttributeError")
        ELSE IF ~IsDict(creative_spec_data) THEN Raise("AttributeError")
        ELSE IF ~IsDict(canvas_from_spec) THEN Raise("AttributeError")
        ELSE IF ~IsDict(imagery) THEN Raise("AttributeError")
        ELSE IF ~Iterable(text_blocks) THEN Raise("TypeError")
        ELSE IF ~Iterable(cta_buttons) THEN Raise("TypeError")
        ELSE Ok(Schema(raw, campaign_prompt,
                Get(raw, "placement", Str("social_media")),
                Get(raw, "dimensions", Dimensions(DefaultWidth, DefaultHeightSquare)),
                Get(raw, "format", Str("static")),
                CanvasOf(Dict(<<Entry("color", Get(background, "color", Str("#ffffff"))),
                                Entry("image", Null)>>),
                         Get(raw, "layout_grid", Str("free")),
                         Get(raw, "bleed_safe_margins", Str("")),
                         Get(imagery, "background_image_url", Null),
                         List([i \in 1..Len(DictItems(text_blocks)) |->
                                  HybridTextBlock(DictItems(text_blocks)[i])]),
                         List([i \in 1..Len(DictItems(cta_buttons)) |->
                                  HybridCta(DictItems(cta_buttons)[i])]),
                         HybridLogo(safe_json_load(raw, "brand_logo", Dict(<<>>))),
                         IF IsList(colors) THEN colors
                         ELSE IF IsDict(colors) THEN List(FixedOrderColors(colors))
                         ELSE List(<<>>),
                         IF slogans_raw = Str("null") THEN Null ELSE slogans_raw,
                         IF legal_raw = Str("null") THEN Null ELSE legal_raw,
                         List([i \in 1..Len(DictItems(decorative)) |->
                                  HybridDecorative(DictItems(decorative)[i])]))))

(***************************************************************************)
(* Flat mapper (llm_flat, img_memory, img_disk): every column through      *)
(* safe_get_field.  The three copies differ in the background field, in    *)
(* the dict-to-list step for cta_buttons (llm_flat only) and in the keys   *)
(* of a mapped button and decorative element.                              *)
(***************************************************************************)
MapFlat(v, raw, campaign_prompt) ==
    LET bgRaw == Get(raw, "background", Dict(<<>>))
        background0 ==
            IF v = "img_disk"
            THEN safe_get_field(raw, "background", DefaultBackground)
            ELSE IF v = "llm_flat"
            THEN Dict(<<Entry("type", safe_get_field(bgRaw, "type", Str("solid"))),
                        Entry("color", safe_get_field(bgRaw, "color", Str("#ffffff"))),
                        Entry("description", safe_get_field(bgRaw, "description", Str(""))),
                        Entry("image", Null)>>)
            ELSE Dict(<<Entry("color", safe_get_field(bgRaw, "color", Str("#ffffff"))),
                        Entry("image", Null)>>)
        url == BackgroundUrl(safe_get_field(raw, "imagery", List(<<>>)))
        text_blocks == safe_get_field(raw, "text_blocks", List(<<>>))
        cta0 == safe_get_field(raw, "cta_buttons", List(<<>>))
        cta_buttons == IF v = "llm_flat" /\ IsDict(cta0) THEN List(Values(cta0)) ELSE cta0
        colors == safe_get_field(raw, "brand_colors", List(<<>>))
        decorative == safe_get_field(raw, "decorative_elements", List(<<>>))
        TextBlock(b) == FlatTextBlock(b)
        Cta(c) == FlatCta(v, c)
        Decorative(d) == FlatDecorative(v, d)
    IN  IF v # "img_disk" /\ ~IsDict(bgRaw) THEN Raise("AttributeError")
        ELSE IF Truthy(url) /\ ~IsDict(background0) THEN Raise("TypeError")
        ELSE IF ~Iterable(text_blocks) THEN Raise("TypeError")
        ELSE IF ~Iterable(cta_buttons) THEN Raise("TypeError")
        ELSE Ok(Schema(raw, campaign_prompt,
                safe_get_field(raw, "placement", Str("social")),
                safe_get_field(raw, "dimensions",
                               Dimensions(DefaultWidth, DefaultHeightTall)),
                safe_get_field(raw, "format", Str("static")),
                CanvasOf(IF Truthy(url) THEN DictSet(background0, "image", url)
                         ELSE background0,
                         safe_get_field(raw, "layout_grid", Str("free")),
                         safe_get_field(raw, "bleed_safe_margins", Null),
                         url,
                         List([i \in 1..Len(DictItems(text_blocks)) |->
                                  TextBlock(DictItems(text_blocks)[i])]),
                         List([i \in 1..Len(DictItems(cta_buttons)) |->
                                  Cta(DictItems(cta_buttons)[i])]),
                         MappedBrandLogo(safe_get_field(raw, "brand_logo", Dict(<<>>)),
                                         FALSE),
                         IF IsList(colors) THEN colors ELSE List(<<>>),
                         safe_get_field(raw, "slogan", Null),
                         safe_get_field(raw, "legal_disclaimer", Null),
                         List([i \in 1..Len(DictItems(decorative)) |->
                                  Decorative(DictItems(decorative)[i])]))))

(***************************************************************************)
(* The raw row once the mapper is through with it.  safe_get_field returns *)
(* the column's own object unless it parses a string or substitutes the    *)
(* default, and img_disk puts that object into the schema as               *)
(* Canvas.background: setting its "image" key writes into the row.  The    *)
(* other mappers build a new background dict.                              *)
(***************************************************************************)
RowAfterMapping(v, raw) ==
    LET background == Get(raw, "background", Null)
        url == BackgroundUrl(safe_get_field(raw, "imagery", List(<<>>)))
    IN  IF v = "img_disk" /\ IsDict(background) /\ Truthy(url)
        THEN DictSet(raw, "background", DictSet(background, "image", url))
        ELSE raw

\* The mapper each variant's html_generator.py defines under this name.
map_supabase_to_required_elements_schema(v, raw, campaign_prompt) ==
    IF v \in NestedMappers THEN MapNested(raw, campaign_prompt)
    ELSE IF v = "img_hybrid" THEN MapHybrid(raw, campaign_prompt)
    ELSE MapFlat(v, raw, campaign_prompt)

\* Canvas field f of a mapped schema.
CanvasField(sch, f) == Get(Get(sch, "Canvas", Dict(<<>>)), f, Null)

(***************************************************************************)
(* The process run.                                                        *)
(*                                                                         *)
(* pc is the step the run is about to take.  The LLM-direct variants go    *)
(*   boot, args, client, fetch, campaign, map, llm, [post,] emit, done     *)
(* and the AI-image variants                                               *)
(*   boot, client, args, fetch, campaign, map, image, [clean | download,]  *)
(*   ocr, html, emit, done;                                                *)
(* a run that calls sys.exit or dies of an exception is at "exited".       *)
(***************************************************************************)

\* What can be wrong with the environment of a run (at most one defect).
Envs ==
    {"ok", "no_supabase_creds", "supabase_client_fails", "no_openai_key",
     "no_replicate_token", "ocr_init_fails"}

CreativeId == "c1"

CliPrompt == "cli prompt"

\* Command lines (sys.argv[1:]).
Argvs ==
    { <<>>,
      <<CreativeId>>,
      <<CreativeId, CliPrompt>>,
      <<CreativeId, CliPrompt, "--llm_type", "gpt4">>,
      <<CreativeId, CliPrompt, "--llm_type", "claude">>,
      <<"-h">> }

\* A line written to a stream: what it says and the id it quotes, if any.
Msg(tag, ref) == [tag |-> tag, ref |-> ref]

\* A log line that lacks file=sys.stderr.
EprintToStdout(o, tag, ref) == [o EXCEPT !.out = Append(@, Msg(tag, ref))]

\* print(..., file=sys.stderr)
Eprint(o, tag, ref) == [o EXCEPT !.err = Append(@, Msg(tag, ref))]

\* print(...) with no file argument: standard output
PrintStdout(o, tag, ref) == [o EXCEPT !.out = Append(@, Msg(tag, ref))]

\* Several stderr lines in a row, all quoting ref.
RECURSIVE EprintAll(_, _, _)
EprintAll(o, tags, ref) ==
    IF tags = <<>> THEN o
    ELSE EprintAll(Eprint(o, Head(tags), ref), Tail(tags), ref)

NoFetch == [status |-> "none", v |-> Null]

NoCalls ==
    [creative |-> 0, campaign |-> 0, chat |-> 0, image |-> 0,
     image_download |-> 0, clean |-> 0, clean_download |-> 0,
     ocr_download |-> 0, dims_download |-> 0, ocr_models |-> 0]

\* layout and post hold the inputs and results of the OCR layout functions
\* and of the responsiveness post-processor when these are exercised on
\* their own; a process run leaves both untouched.
LayoutIdle == [pc |-> "idle"]

PostIdle == [pc |-> "idle"]

\* phase1 holds the input and result of the Phase 1 prompt construction when
\* it is exercised on its own, duo the two runs that share one output
\* directory; a single process run leaves both untouched.
Phase1Idle == [pc |-> "idle"]

DuoIdle == [pc |-> "idle"]

Init ==
    /\ layout = LayoutIdle
    /\ post = PostIdle
    /\ phase1 = Phase1Idle
    /\ duo = DuoIdle
    /\ variant \in Variants
    /\ env \in Envs
    /\ argv \in Argvs
    /\ pc = "boot"
    /\ io = [out |-> <<>>, err |-> <<>>]
    /\ exitStatus = -1
    /\ steps = <<>>
    /\ calls = NoCalls
    /\ row = Null
    /\ prompt = Null
    /\ schema = Null
    /\ fetched = NoFetch
    /\ doc = "none"

\* An executed step and how it went.
Step(name, outcome) == [step |-> name, outcome |-> outcome]

\* sys.exit(code), or the interpreter ending the process, in step name.
Exit(code, o, name, outcome) ==
    /\ pc' = "exited"
    /\ exitStatus' = code
    /\ io' = o
    /\ steps' = Append(steps, Step(name, outcome))

\* Step name completed and hands over to the step at next.
Goto(next, o, name, outcome) ==
    /\ pc' = next
    /\ exitStatus' = exitStatus
    /\ io' = o
    /\ steps' = Append(steps, Step(name, outcome))

\* Variants whose last handler also prints the traceback.
PrintsTraceback == {"llm_flat", "img_hybrid", "img_memory", "img_disk"}

(***************************************************************************)
(* The except clauses that close main's try block: the label of the line   *)
(* printed on stderr depends on the class of the exception; every clause   *)
(* ends in sys.exit(1).                                                    *)
(***************************************************************************)
MainExcept(o, exc) ==
    IF exc = "FileNotFoundError" THEN Eprint(o, "Error", "")
    ELSE IF exc = "ValueError" THEN Eprint(o, "Data Error", "")
    ELSE IF variant \in PrintsTraceback
         THEN Eprint(Eprint(o, "unexpected error", ""), "traceback", "")
         ELSE Eprint(o, "unexpected error", "")

\* A handler that reports the exception and lets main return.
AbortWithoutExit(o, exc, name, outcome) == Exit(0, MainExcept(o, exc), name, outcome)

\* An exception raised inside main's try block during step name.
Abort(o, exc, name, outcome) == Exit(1, MainExcept(o, exc), name, outcome)

(***************************************************************************)
(* Module-level start-up: the database credentials and client, and in the  *)
(* AI-image variants the OCR reader, which downloads its models when they  *)
(* are not on the machine yet.                                             *)
(***************************************************************************)
Bootstrap ==
    /\ pc = "boot"
    /\ IF env = "no_supabase_creds"
       THEN /\ calls' = calls
            /\ Exit(1, Eprint(io, "err_supabase_env", ""), "boot", "no_creds")
       ELSE IF env = "supabase_client_fails"
       THEN /\ calls' = calls
            /\ Exit(1, Eprint(io, "err_supabase_client", ""), "boot", "client_failed")
       ELSE IF variant \in ImageVariants
       THEN /\ calls' \in {calls, [calls EXCEPT !.ocr_models = @ + 1]}
            /\ IF env = "ocr_init_fails"
               THEN Exit(1, EprintAll(io, <<"supabase_ready", "ocr_init", "err_ocr_init",
                                           "ocr_hint">>, ""), "boot", "ocr_failed")
               ELSE Goto("client", EprintAll(io, <<"supabase_ready", "ocr_init",
                                                  "ocr_ready">>, ""), "boot", "ok")
       ELSE /\ calls' = calls
            /\ Goto("args", Eprint(io, "supabase_ready", ""), "boot", "ok")
    /\ UNCHANGED <<phase1, duo, layout, post, variant, env, argv, row, prompt, schema, fetched, doc>>

\* argparse: the arguments that are neither an option nor an option's value.
Positionals(args) ==
    LET keep(i) == /\ args[i] \notin {"--llm_type", "-h"}
                   /\ ~(i > 1 /\ args[i - 1] = "--llm_type")
        idx == {i \in 1..Len(args) : keep(i)}
        RECURSIVE pick(_)
        pick(n) == IF n > Len(args) THEN <<>>
                   ELSE IF n \in idx THEN <<args[n]>> \o pick(n + 1)
                   ELSE pick(n + 1)
    IN  pick(1)

\* argparse: the value given to --llm_type, or its default.
LlmType(args) ==
    IF \E i \in 1..(Len(args) - 1) : args[i] = "--llm_type"
    THEN args[1 + CHOOSE i \in 1..(Len(args) - 1) : args[i] = "--llm_type"]
    ELSE "gpt4o"

\* functions.llm_name2id, which is also the choices list of --llm_type.
llm_name2id == {"gpt4", "gpt3.5", "gpt4o"}

(***************************************************************************)
(* parser.parse_args() of the LLM-direct variants: -h prints the help on   *)
(* standard output and exits 0; a usage error prints on standard error and *)
(* exits 2 (argparse's own exit status).                                   *)
(***************************************************************************)
ArgparseOutcome(args) ==
    IF \E i \in 1..Len(args) : args[i] = "-h" THEN "help"
    ELSE IF LlmType(args) \notin llm_name2id THEN "usage_error"
    ELSE IF Len(Positionals(args)) # 2 THEN "usage_error"
    ELSE "ok"

ArgparseErrorStatus == 2

\* The creative id and the fallback prompt as main reads them.
CreativeIdArg ==
    IF variant \in LlmVariants THEN Positionals(argv)[1] ELSE argv[1]

CliPromptArg ==
    IF variant \in LlmVariants THEN Positionals(argv)[2] ELSE argv[2]

(***************************************************************************)
(* Reading the command line: argparse in the LLM-direct variants, a length *)
(* check on sys.argv followed by sys.exit(1) in the AI-image variants.     *)
(***************************************************************************)
ParseArgs ==
    /\ pc = "args"
    /\ IF variant \in LlmVariants
       THEN CASE ArgparseOutcome(argv) = "help" ->
                    Exit(0, PrintStdout(io, "help", ""), "args", "help")
              [] ArgparseOutcome(argv) = "usage_error" ->
                    Exit(ArgparseErrorStatus, Eprint(io, "usage", ""),
                         "args", "usage_error")
              [] OTHER -> Goto("client", io, "args", "ok")
       ELSE IF Len(argv) < 2
            THEN Exit(1, Eprint(io, "usage", ""), "args", "usage_error")
            ELSE Goto("fetch", Eprint(io, "received_args", argv[1]), "args", "ok")
    /\ UNCHANGED <<phase1, duo, layout, post, variant, env, argv, calls, row, prompt, schema, fetched, doc>>

(***************************************************************************)
(* The API client: OpenAI() before main's try block (an exception there is *)
(* uncaught: traceback on stderr, exit status 1), the Replicate token      *)
(* check inside it.                                                        *)
(***************************************************************************)
SetupClient ==
    /\ pc = "client"
    /\ IF variant \in LlmVariants
       THEN IF env = "no_openai_key"
            THEN Exit(1, Eprint(io, "traceback", ""), "client", "failed")
            ELSE Goto("fetch", io, "client", "ok")
       ELSE IF env = "no_replicate_token"
            THEN Exit(1, Eprint(io, "err_replicate_token", ""), "client", "failed")
            ELSE Goto("args", Eprint(io, "replicate_ready", ""), "client", "ok")
    /\ UNCHANGED <<phase1, duo, layout, post, variant, env, argv, calls, row, prompt, schema, fetched, doc>>

(***************************************************************************)
(* Rows the creatives table can hand back.  A row is the dict the database *)
(* client decoded; a column without a value is either missing from it or   *)
(* holds None.  FlatRow has one content column set, CanvasRow one field of *)
(* creative_spec.Canvas, SpecRow one field of creative_spec.               *)
(***************************************************************************)
FlatRow(field, value) == Dict(<<Entry(field, value)>>)

SpecRow(field, value) ==
    Dict(<<Entry("creative_spec", Dict(<<Entry(field, value)>>))>>)

CanvasRow(field, value) == SpecRow("Canvas", Dict(<<Entry(field, value)>>))

ContentColumns ==
    <<"placement", "dimensions", "format", "background", "layout_grid",
      "bleed_safe_margins", "imagery", "text_blocks", "cta_buttons",
      "brand_logo", "brand_colors", "slogan", "legal_disclaimer",
      "decorative_elements">>

CanvasFields ==
    <<"background", "layout_grid", "bleed_safe_margins", "Text_Blocks",
      "cta_buttons", "brand_colors", "slogans", "legal_disclaimer",
      "decorative_elements">>

NullEntries(keys) == [i \in 1..Len(keys) |-> Entry(keys[i], Null)]

\* Every content column present and None (a row stored without content).
AllNullFlatRow == Dict(NullEntries(ContentColumns))

\* creative_spec.Canvas with every one of its fields None.
AllNullCanvasRow == SpecRow("Canvas", Dict(NullEntries(CanvasFields)))

SaleBlock == Dict(<<Entry("text", Str("Sale"))>>)

BuyButton == Dict(<<Entry("text", Str("Buy"))>>)

Circle == Dict(<<Entry("shape_type", Str("circle"))>>)

BackgroundImage ==
    Dict(<<Entry("type", Str("background")), Entry("url", Str("http://img"))>>)

PosterImage ==
    Dict(<<Entry("type", Str("poster")), Entry("url", Str("http://poster"))>>)

\* Values a list-typed column or field is found to hold.
ListishValues(item) ==
    { List(<<item>>), Dict(<<Entry("a", item)>>), Str(""), Num(5), Str("null") }

\* brand_colors as a dict, in several key orders, and in its other forms.
ColorValues ==
    { Dict(<<Entry("primary", Str("#111")), Entry("accent", Str("#222"))>>),
      Dict(<<Entry("accent", Str("#222")), Entry("primary", Str("#111"))>>),
      Dict(<<Entry("secondary", Str("#333")), Entry("primary", Str("#111"))>>),
      List(<<Str("#111"), Str("#222")>>),
      Str("{\"primary\":\"#111\",\"accent\":\"#222\"}"),
      Str("[\"#111\",\"#222\"]"),
      Str(""), Num(5) }

FlatRows ==
    { Dict(<<>>), AllNullFlatRow }
    \cup { FlatRow("placement", v) : v \in {Str("story"), Str("\"story\"")} }
    \cup { FlatRow("format", Str("animated")),
           FlatRow("slogan", Str("Big Sale Today")),
           FlatRow("slogan", Str("null")),
           FlatRow("legal_disclaimer", Str("Terms apply")),
           FlatRow("dimensions", Dimensions(800, 600)),
           FlatRow("dimensions", Num(5)),
           FlatRow("background", Dict(<<Entry("color", Str("#000000"))>>)),
           FlatRow("background", Str("#000000")),
           FlatRow("imagery", List(<<BackgroundImage>>)),
           Dict(<<Entry("background", List(<<>>)),
                  Entry("imagery", List(<<BackgroundImage>>))>>),
           Dict(<<Entry("background", Dict(<<Entry("color", Str("#000000"))>>)),
                  Entry("imagery", List(<<BackgroundImage>>))>>),
           Dict(<<Entry("background", Dict(<<Entry("color", Str("#000000")),
                                             Entry("image", Str("http://old"))>>)),
                  Entry("imagery", List(<<PosterImage>>))>>),
           FlatRow("imagery", List(<<PosterImage, BackgroundImage>>)),
           FlatRow("imagery", List(<<Dict(<<Entry("type", Str("background")),
                                            Entry("url", Str(""))>>),
                                     BackgroundImage>>)),
           FlatRow("brand_logo", Dict(<<Entry("text_alt", Str("Acme")),
                                        Entry("size", Str("large"))>>)),
           FlatRow("brand_logo", Str("Acme")),
           FlatRow("text_blocks", Str("[{\"text\":\"Sale\"}]")) }
    \cup { FlatRow("brand_colors", v) : v \in ColorValues }
    \cup { FlatRow("text_blocks", v) : v \in ListishValues(SaleBlock) }
    \cup { FlatRow("cta_buttons", v) : v \in ListishValues(BuyButton) }
    \cup { FlatRow("decorative_elements", v) : v \in ListishValues(Circle) }

NestedRows ==
    { FlatRow("creative_spec", v) :
        v \in {Null, Str("{}"), List(<<>>), Dict(<<>>)} }
    \cup { SpecRow("Canvas", v) : v \in {Null, Dict(<<>>)} }
    \cup { AllNullCanvasRow,
           SpecRow("placement", Str("story")),
           SpecRow("format", Str("animated")),
           CanvasRow("slogans", Str("Big Sale Today")),
           CanvasRow("legal_disclaimer", Str("Terms apply")),
           CanvasRow("Imagery", Dict(<<Entry("background_image_url",
                                             Str("http://img"))>>)),
           CanvasRow("Imagery", Null) }
    \cup { CanvasRow("brand_colors", v) : v \in ColorValues }
    \cup { CanvasRow("Text_Blocks", v) : v \in ListishValues(SaleBlock) }
    \cup { CanvasRow("cta_buttons", v) : v \in ListishValues(BuyButton) }
    \cup { CanvasRow("decorative_elements", v) : v \in ListishValues(Circle) }

CampaignId == "camp1"

\* The same content with and without a campaign_id.
RawRows ==
    (FlatRows \cup NestedRows)
    \cup { DictSet(r, "campaign_id", Str(CampaignId)) : r \in FlatRows \cup NestedRows }

\* What the campaigns table holds in its campaign_prompt column.
DbPrompts == { Str("db prompt"), Str(""), Null }

\* One more attempt at an external call site.
Bump(site) == [calls EXCEPT ![site] = @ + 1]

(***************************************************************************)
(* fetch_creative_data_from_supabase, called first inside main's try: the  *)
(* query returns a row, or no row (the function raises ValueError when     *)
(* data is falsy; the client library may raise its own error on .single()  *)
(* before that), or the call itself fails.  Every exception is logged and  *)
(* re-raised to main's handlers.                                           *)
(***************************************************************************)
\* The fetch without its "if not data" check: the empty result is returned.
OnNoDataReturn(o, id) ==
    /\ row' = Null
    /\ Goto("campaign", Eprint(o, "creative_fetched", id), "fetch", "zero_rows")

\* "if not data": log the id and raise ValueError, which the function's own
\* handler logs and re-raises.
OnNoData(o, id) ==
    /\ row' = row
    /\ Abort(EprintAll(o, <<"no_creative_found", "err_fetching_creative">>, id),
             "ValueError", "fetch", "zero_rows")

FetchCreative ==
    /\ pc = "fetch"
    /\ calls' = Bump("creative")
    /\ LET id == CreativeIdArg
           o == Eprint(io, "fetching_creative", id)
       IN  \/ \E r \in RawRows :
                /\ row' = r
                /\ Goto("campaign", Eprint(o, "creative_fetched", id), "fetch", "found")
           \/ OnNoData(o, id)
           \/ /\ row' = row
              /\ Abort(Eprint(o, "err_fetching_creative", ""),
                       "APIError", "fetch", "zero_rows")
           \/ /\ row' = row
              /\ Abort(Eprint(o, "err_fetching_creative", ""),
                       "ConnectionError", "fetch", "unreachable")
    /\ UNCHANGED <<phase1, duo, layout, post, variant, env, argv, prompt, schema, fetched, doc>>

\* The variants that take the database prompt only when it is truthy and
\* that warn when the row has no campaign_id.
GuardedPrompt == {"img_hybrid", "img_memory"}

\* A resolution that never replaces the CLI argument.
ChosenPromptCliOnly(v, cli) == cli

\* The prompt main keeps once the fetch returned v.
ChosenPrompt(v, cli) ==
    IF variant \in GuardedPrompt /\ ~Truthy(v) THEN cli ELSE v

(***************************************************************************)
(* The campaign prompt: the CLI argument unless the row names a campaign   *)
(* and fetch_campaign_prompt_from_supabase returns; an exception of the    *)
(* fetch is caught, logged as a warning, and the CLI argument stays.       *)
(***************************************************************************)
ResolveCampaignPrompt ==
    /\ pc = "campaign"
    /\ LET campaign_id == Get(row, "campaign_id", Null)
           cli == Str(CliPromptArg)
       IN  IF Truthy(campaign_id)
           THEN /\ calls' = Bump("campaign")
                /\ \/ \E v \in DbPrompts :
                        /\ fetched' = [status |-> "ok", v |-> v]
                        /\ prompt' = ChosenPrompt(v, cli)
                        /\ Goto("map",
                                EprintAll(io, <<"fetching_campaign", "campaign_fetched",
                                                "fetched_prompt">>, campaign_id.s),
                                "campaign", "db")
                   \/ /\ fetched' = [status |-> "raised", v |-> Null]
                      /\ prompt' = cli
                      /\ Goto("map",
                              EprintAll(io, <<"fetching_campaign", "no_campaign_found",
                                              "err_fetching_campaign",
                                              "warn_campaign_fetch">>, campaign_id.s),
                              "campaign", "zero_rows")
                   \/ /\ fetched' = [status |-> "raised", v |-> Null]
                      /\ prompt' = cli
                      /\ Goto("map",
                              EprintAll(io, <<"fetching_campaign", "err_fetching_campaign",
                                              "warn_campaign_fetch">>, campaign_id.s),
                              "campaign", "unreachable")
           ELSE /\ calls' = calls
                /\ fetched' = [status |-> "skipped", v |-> Null]
                /\ prompt' = cli
                /\ Goto("map",
                        IF variant \in GuardedPrompt
                        THEN Eprint(io, "warn_no_campaign_id", "")
                        ELSE io,
                        "campaign", "skipped")
    /\ UNCHANGED <<phase1, duo, layout, post, variant, env, argv, row, schema, doc>>

(***************************************************************************)
(* Mapping, and what main reads from the result before rendering: llm_flat *)
(* takes width and height from dimensions, the AI-image variants take the  *)
(* background image url and warn when there is none.  An exception of the  *)
(* mapper reaches main's handlers.                                         *)
(***************************************************************************)
MapSchema ==
    /\ pc = "map"
    /\ LET res == map_supabase_to_required_elements_schema(variant, row, prompt)
           o == Eprint(io, "mapping", "")
       IN  IF ~res.ok
           THEN /\ schema' = schema
                /\ Abort(o, res.exc, "map", "raised")
           ELSE /\ schema' = res.v
                /\ IF variant = "llm_flat"
                        /\ ~IsDict(Get(res.v, "dimensions", Dict(<<>>)))
                   THEN Abort(Eprint(o, "mapped", ""), "AttributeError",
                              "map", "bad_dimensions")
                   ELSE IF variant \in LlmVariants
                   THEN Goto("llm", Eprint(o, "mapped", ""), "map", "ok")
                   ELSE IF Truthy(Get(CanvasField(res.v, "Imagery"),
                                      "background_image_url", Null))
                   THEN Goto("image", Eprint(o, "mapped", ""), "map", "ok")
                   ELSE Goto("image", EprintAll(o, <<"mapped", "warn_no_background_url">>, ""),
                             "map", "ok")
    /\ row' = RowAfterMapping(variant, row)
    /\ UNCHANGED <<phase1, duo, layout, post, variant, env, argv, calls, prompt, fetched, doc>>

\* The exception of "for x in v: x.get(...)", or "" when the loop runs through.
LoopOverDictsError(v) ==
    IF ~Iterable(v) THEN "TypeError"
    ELSE IF IsList(v)
    THEN (IF \A i \in 1..Len(v.e) : IsDict(v.e[i]) THEN "" ELSE "AttributeError")
    ELSE IF Truthy(v) THEN "AttributeError"
    ELSE ""

(***************************************************************************)
(* The part of generate_full_creative that builds the image prompt from    *)
(* the schema: the exception it raises, or "" when it builds.              *)
(***************************************************************************)
BuildPromptError(v, sch) ==
    LET canvas == Get(sch, "Canvas", Dict(<<>>))
        url == Get(Get(canvas, "Imagery", Dict(<<>>)), "background_image_url", Null)
        colors == Get(canvas, "brand_colors", List(<<>>))
        cta == Get(canvas, "cta_buttons", List(<<>>))
        decorative == Get(canvas, "decorative_elements", List(<<>>))
        guarded == v \in {"img_memory", "img_disk"}
    IN  IF ~IsDict(Get(sch, "dimensions", Dict(<<>>))) THEN "AttributeError"
        ELSE IF ~Truthy(url) /\ ~IsDict(Get(canvas, "background", Dict(<<>>)))
        THEN "AttributeError"
        ELSE IF LoopOverDictsError(Get(canvas, "Text_Blocks", List(<<>>))) # ""
        THEN LoopOverDictsError(Get(canvas, "Text_Blocks", List(<<>>)))
        ELSE IF IsList(cta) /\ LoopOverDictsError(cta) # "" THEN "AttributeError"
        ELSE IF ~IsDict(Get(canvas, "brand_logo", Dict(<<>>))) THEN "AttributeError"
        ELSE IF IsList(colors) /\ \E i \in 1..Len(colors.e) : ~IsStr(colors.e[i])
        THEN "TypeError"
        ELSE IF ~guarded /\ IsList(decorative) /\ LoopOverDictsError(decorative) # ""
        THEN "AttributeError"
        ELSE ""

\* A main that hands the image url straight to the HTML assembly.
AfterImageSkipsOcr == "html"

\* The step that follows image generation in each AI-image variant.
AfterImage ==
    IF variant \in {"img_clean", "img_disk"} THEN "clean"
    ELSE IF variant = "img_memory" THEN "download"
    ELSE "ocr"

(***************************************************************************)
(* generate_full_creative: build the prompt, run the image model once,     *)
(* and (all variants but img_memory) download the result to disk.  Every   *)
(* failure is an exception that reaches main's last handler.               *)
(***************************************************************************)
GenerateFullCreative ==
    /\ pc = "image"
    /\ LET err == BuildPromptError(variant, schema)
           o == Eprint(io, "phase1", "")
       IN  IF err # ""
           THEN /\ calls' = calls
                /\ Abort(o, err, "image", "prompt_raised")
           ELSE \/ /\ calls' = Bump("image")
                   /\ Abort(Eprint(o, "err_replicate", ""), "ReplicateError",
                            "image", "run_raised")
                \/ /\ calls' = Bump("image")
                   /\ Abort(Eprint(o, "err_replicate", ""),
                            IF variant = "img_clean" THEN "AttributeError" ELSE "Exception",
                            "image", "no_url")
                \/ /\ variant = "img_memory"
                   /\ calls' = Bump("image")
                   /\ Goto(AfterImage, Eprint(o, "image_url", ""), "image", "ok")
                \/ /\ variant # "img_memory"
                   /\ calls' = [calls EXCEPT !.image = @ + 1, !.image_download = @ + 1]
                   /\ \/ Goto(AfterImage, EprintAll(o, <<"image_url", "downloading",
                                                        "image_saved">>, ""), "image", "ok")
                      \/ Abort(EprintAll(o, <<"image_url", "downloading",
                                              "download_failed">>, ""),
                               "Exception", "image", "download_failed")
    /\ UNCHANGED <<phase1, duo, layout, post, variant, env, argv, row, prompt, schema, fetched, doc>>

(***************************************************************************)
(* generate_clean_background.  img_clean runs the text-removal model and   *)
(* downloads its output, raising on either failure.  img_disk only copies  *)
(* the full creative to the clean-background path: a failed download is a  *)
(* warning and the run goes on.                                            *)
(***************************************************************************)
GenerateCleanBackground ==
    /\ pc = "clean"
    /\ LET o == Eprint(io, "phase2", "")
       IN  IF variant = "img_clean"
           THEN \/ /\ calls' = Bump("clean")
                   /\ Abort(Eprint(o, "err_replicate", ""), "ReplicateError",
                            "clean", "run_raised")
                \/ /\ calls' = [calls EXCEPT !.clean = @ + 1, !.clean_download = @ + 1]
                   /\ \/ Goto("ocr", EprintAll(o, <<"clean_url", "downloading",
                                                   "image_saved">>, ""), "clean", "ok")
                      \/ Abort(EprintAll(o, <<"clean_url", "downloading",
                                              "download_failed">>, ""),
                               "Exception", "clean", "download_failed")
           ELSE /\ calls' = Bump("clean_download")
                /\ \/ Goto("ocr", EprintAll(o, <<"downloading", "image_saved">>, ""),
                           "clean", "ok")
                   \/ Goto("ocr", EprintAll(o, <<"downloading", "download_failed",
                                                "warn_clean_download">>, ""),
                           "clean", "download_failed")
    /\ UNCHANGED <<phase1, duo, layout, post, variant, env, argv, row, prompt, schema, fetched, doc>>

(***************************************************************************)
(* img_memory: main downloads the full creative into memory for the OCR    *)
(* and raises when the download returns nothing.                           *)
(***************************************************************************)
DownloadForOcr ==
    /\ pc = "download"
    /\ calls' = Bump("ocr_download")
    /\ \/ Goto("ocr", EprintAll(io, <<"downloading", "downloaded">>, ""),
               "download", "ok")
       \/ Abort(EprintAll(io, <<"downloading", "download_failed">>, ""),
                "Exception", "download", "download_failed")
    /\ UNCHANGED <<phase1, duo, layout, post, variant, env, argv, row, prompt, schema, fetched, doc>>

(***************************************************************************)
(* extract_text_positions: an image that cannot be read is a               *)
(* FileNotFoundError in the variants that read it from disk and a          *)
(* ValueError in img_memory, which decodes it from memory.                 *)
(***************************************************************************)
ExtractTextPositions ==
    /\ pc = "ocr"
    /\ \/ Goto("html", EprintAll(io, <<"phase3", "ocr_boxes">>, ""), "ocr", "ok")
       \/ Abort(EprintAll(io, <<"phase3", "err_image_unreadable">>, ""),
                IF variant = "img_memory" THEN "ValueError" ELSE "FileNotFoundError",
                "ocr", "unreadable")
    /\ UNCHANGED <<phase1, duo, layout, post, variant, env, argv, calls, row, prompt, schema, fetched, doc>>

(***************************************************************************)
(* generate_html_with_ocr_layout.  img_memory downloads the full creative  *)
(* once more to measure it; when that fails it warns and keeps the         *)
(* schema's dimensions.  The other variants measure the file on disk and   *)
(* write the document to the final HTML path.                              *)
(***************************************************************************)
GenerateHtml ==
    /\ pc = "html"
    /\ doc' = "ocr_layout"
    /\ IF variant = "img_memory"
       THEN /\ calls' = Bump("dims_download")
            /\ \/ Goto("emit", EprintAll(io, <<"phase4", "downloading", "downloaded",
                                               "html_generated">>, ""), "html", "ok")
               \/ Goto("emit", EprintAll(io, <<"phase4", "downloading", "download_failed",
                                               "warn_dimensions", "html_generated">>, ""),
                       "html", "download_failed")
       ELSE /\ calls' = calls
            /\ Goto("emit", EprintAll(io, <<"phase4", "html_saved">>, ""), "html", "ok")
    /\ UNCHANGED <<phase1, duo, layout, post, variant, env, argv, row, prompt, schema, fetched>>

(***************************************************************************)
(* gpt_generation: one chat completion, no handler of its own.  The reply  *)
(* is an HTML document that has a <style> block or has none.               *)
(***************************************************************************)
GptGeneration ==
    /\ pc = "llm"
    /\ calls' = Bump("chat")
    /\ \/ /\ doc' = doc
          /\ Abort(io, "APIError", "llm", "raised")
       \/ \E reply \in {"llm_with_style", "llm_without_style"} :
            /\ doc' = reply
            /\ Goto(IF variant = "llm_flat" THEN "post" ELSE "emit", io, "llm", "ok")
    /\ UNCHANGED <<phase1, duo, layout, post, variant, env, argv, row, prompt, schema, fetched>>

(***************************************************************************)
(* post_process_llm_html (llm_flat).  Non-positive dimensions return the   *)
(* reply unchanged.  Without a <style> block the else branch reads a       *)
(* variable that only the if branch assigns: UnboundLocalError.            *)
(***************************************************************************)
PostProcess ==
    /\ pc = "post"
    /\ LET dimensions == Get(schema, "dimensions", Dict(<<>>))
           width == Get(dimensions, "width", Num(DefaultWidth))
           height == Get(dimensions, "height", Num(DefaultHeightTall))
           o == Eprint(io, "post_processing", "")
       IN  IF width.t # "num" \/ height.t # "num"
           THEN /\ doc' = doc
                /\ Abort(o, "TypeError", "post", "raised")
           ELSE IF width.n <= 0 \/ height.n <= 0
           THEN /\ doc' = doc
                /\ Goto("emit", Eprint(o, "warn_dimensions", ""), "post", "skipped")
           ELSE IF doc = "llm_with_style"
           THEN /\ doc' = "post_processed"
                /\ Goto("emit", Eprint(o, "post_processed", ""), "post", "ok")
           ELSE /\ doc' = doc
                /\ Abort(Eprint(o, "warn_no_style", ""), "UnboundLocalError",
                         "post", "raised")
    /\ UNCHANGED <<phase1, duo, layout, post, variant, env, argv, calls, row, prompt, schema, fetched>>

\* The stderr lines each variant prints just before the document.
BeforeDocument ==
    CASE variant = "llm_nested" -> <<"html_saved", "open_in_browser">>
      [] variant = "llm_flat" -> <<>>
      [] variant = "img_memory" -> <<"pipeline_completed", "html_header">>
      [] variant = "img_hybrid" -> <<"pipeline_completed", "check_output", "html_header">>
      [] OTHER -> <<"pipeline_completed", "check_output">>

\* The stderr lines each variant prints after the document.
AfterDocument ==
    IF variant = "llm_flat" THEN <<"html_sent">> ELSE <<>>

(***************************************************************************)
(* The end of main's try block: the one print without file=sys.stderr,     *)
(* which writes the document to standard output; main then returns and     *)
(* the process ends with status 0.                                         *)
(***************************************************************************)
EmitHtml ==
    /\ pc = "emit"
    /\ pc' = "done"
    /\ exitStatus' = 0
    /\ io' = EprintAll(PrintStdout(EprintAll(io, BeforeDocument, ""), "html", doc),
                       AfterDocument, "")
    /\ steps' = Append(steps, Step("emit", "ok"))
    /\ UNCHANGED <<phase1, duo, layout, post, variant, env, argv, calls, row, prompt, schema, fetched, doc>>

Next ==
    \/ Bootstrap
    \/ ParseArgs
    \/ SetupClient
    \/ FetchCreative
    \/ ResolveCampaignPrompt
    \/ MapSchema
    \/ GptGeneration
    \/ PostProcess
    \/ GenerateFullCreative
    \/ GenerateCleanBackground
    \/ DownloadForOcr
    \/ ExtractTextPositions
    \/ GenerateHtml
    \/ EmitHtml

Spec == Init /\ [][Next]_vars

(***************************************************************************)
(* The OCR layout functions of the AI-image variants, called on their own. *)
(*                                                                         *)
(* A text is the sequence of its characters.  A detection of the OCR       *)
(* reader is (bbox, text, conf): bbox the four corners of the quadrangle,  *)
(* each coordinate in half pixels so that int() has something to truncate, *)
(* conf in hundredths.  Font sizes are exact fractions n/d: the floating   *)
(* point rounding of the source is not modelled.                           *)
(***************************************************************************)

\* The characters str.strip() removes.
Whitespace == {" ", "\t", "\n"}

RECURSIVE LStrip(_)
LStrip(s) == IF s # <<>> /\ Head(s) \in Whitespace THEN LStrip(Tail(s)) ELSE s

RECURSIVE RStrip(_)
RStrip(s) ==
    IF s # <<>> /\ s[Len(s)] \in Whitespace
    THEN RStrip(SubSeq(s, 1, Len(s) - 1))
    ELSE s

\* text.strip()
Strip(s) == RStrip(LStrip(s))

MinOf(S) == CHOOSE m \in S : \A n \in S : m <= n

MaxOf(S) == CHOOSE m \in S : \A n \in S : m >= n

\* int(v) of a non-negative coordinate v given in half pixels.
IntOf(half) == half \div 2

\* conf > 0.6, in hundredths.
ConfidenceThreshold == 60

\* A filter that also keeps a detection at the threshold.
RetainedFromThreshold(d) == d.conf >= ConfidenceThreshold /\ Strip(d.text) # <<>>

\* if conf > 0.6 and text.strip()
Retained(d) == d.conf > ConfidenceThreshold /\ Strip(d.text) # <<>>

\* The box appended for a retained detection.
BoxOf(d) ==
    LET x_coords == {d.bbox[i][1] : i \in 1..4}
        y_coords == {d.bbox[i][2] : i \in 1..4}
    IN  [text |-> Strip(d.text),
         x |-> IntOf(MinOf(x_coords)),
         y |-> IntOf(MinOf(y_coords)),
         width |-> IntOf(MaxOf(x_coords) - MinOf(x_coords)),
         height |-> IntOf(MaxOf(y_coords) - MinOf(y_coords)),
         conf |-> d.conf]

\* An ordering by (x, y) instead.
KeyLessByColumn(a, b) == a.x < b.x \/ (a.x = b.x /\ a.y < b.y)

\* key=lambda b: (b['y'], b['x']): a sorts strictly before b.
KeyLess(a, b) == a.y < b.y \/ (a.y = b.y /\ a.x < b.x)

\* list.sort is stable: b goes after every element that does not sort
\* strictly after it.
RECURSIVE InsertSorted(_, _)
InsertSorted(sorted, b) ==
    IF sorted = <<>> THEN <<b>>
    ELSE IF KeyLess(b, Head(sorted)) THEN <<b>> \o sorted
    ELSE <<Head(sorted)>> \o InsertSorted(Tail(sorted), b)

RECURSIVE SortBoxes(_)
SortBoxes(boxes) ==
    IF boxes = <<>> THEN <<>>
    ELSE InsertSorted(SortBoxes(SubSeq(boxes, 1, Len(boxes) - 1)), boxes[Len(boxes)])

\* extract_text_positions, from the reader's results on.
extract_text_positions(results) ==
    LET kept == SelectSeq(results, Retained)
    IN  SortBoxes([i \in 1..Len(kept) |-> BoxOf(kept[i])])

\* The fraction n/d (d > 0).
Frac(n, d) == [n |-> n, d |-> d]

FracMul(a, b) == Frac(a.n * b.n, a.d * b.d)

FracLess(a, b) == a.n * b.d < b.n * a.d

FracEq(a, b) == a.n * b.d = b.n * a.d

MinFontSize == 10

MaxFontSize == 80

\* A font size emitted as computed.
ClampFontAbsent(f) == f

\* max(10, min(80, font_size))
ClampFont(f) ==
    LET capped == IF FracLess(Frac(MaxFontSize, 1), f) THEN Frac(MaxFontSize, 1) ELSE f
    IN  IF FracLess(capped, Frac(MinFontSize, 1)) THEN Frac(MinFontSize, 1) ELSE capped

\* Sizing that never shrinks the font to the width of the box.
FontSizeFromHeight(box) == ClampFont(Frac(9 * box.height, 10))

(***************************************************************************)
(* The per-box font size: 0.9 of the height, and when the text is longer   *)
(* than 1.2 times the characters estimated to fit on a line, scaled to the *)
(* width; then clamped.                                                    *)
(***************************************************************************)
FontSize(box) ==
    LET len == Len(box.text)
        base_font_size == Frac(9 * box.height, 10)
        char_width == FracMul(base_font_size, Frac(6, 10))
        estimated_chars_per_line ==
            IF char_width.n > 0
            THEN Frac(box.width * char_width.d, char_width.n)
            ELSE Frac(len, 1)
        text_width == FracMul(Frac(len, 1), char_width)
        scaling_factor ==
            IF text_width.n > 0
            THEN Frac(box.width * text_width.d, text_width.n)
            ELSE Frac(1, 1)
    IN  ClampFont(
            IF /\ FracLess(FracMul(estimated_chars_per_line, Frac(12, 10)), Frac(len, 1))
               /\ estimated_chars_per_line.n > 0
            THEN FracMul(FracMul(base_font_size, scaling_factor), Frac(9, 10))
            ELSE base_font_size)

HtmlBoxBufferX == 10

HtmlBoxBufferY == 8

MinOverlaySize == 20

Max2(a, b) == IF a >= b THEN a ELSE b

Min2(a, b) == IF a <= b THEN a ELSE b

\* The variants that add data-x and data-y to the overlay.
DataAttributeVariants == {"img_hybrid", "img_memory"}

\* Geometry that is not clamped to the container.
OverlayUnclamped(v, box, creative_width, creative_height) ==
    [tag |-> "div", class |-> "overlay-text", href |-> "",
     left |-> Max2(0, box.x - (HtmlBoxBufferX \div 2)),
     top |-> Max2(0, box.y - (HtmlBoxBufferY \div 2)),
     width |-> Max2(MinOverlaySize, box.width + HtmlBoxBufferX),
     height |-> Max2(MinOverlaySize, box.height + HtmlBoxBufferY),
     font_size |-> FontSize(box),
     text |-> box.text,
     data |-> IF v \in DataAttributeVariants THEN <<box.x, box.y>> ELSE <<>>]

\* The element written for one box: always a div of class overlay-text.
Overlay(v, box, creative_width, creative_height) ==
    LET left_pos == Max2(0, box.x - (HtmlBoxBufferX \div 2))
        top_pos == Max2(0, box.y - (HtmlBoxBufferY \div 2))
        width_val == Max2(MinOverlaySize, box.width + HtmlBoxBufferX)
        height_val == Max2(MinOverlaySize, box.height + HtmlBoxBufferY)
    IN  [tag |-> "div", class |-> "overlay-text", href |-> "",
         left |-> left_pos,
         top |-> top_pos,
         width |-> Min2(width_val, creative_width - left_pos),
         height |-> Min2(height_val, creative_height - top_pos),
         font_size |-> FontSize(box),
         text |-> box.text,
         data |-> IF v \in DataAttributeVariants THEN <<box.x, box.y>> ELSE <<>>]

\* The variants whose HTML assembly falls back to a square creative.
SquareDefault == {"img_hybrid", "img_clean"}

\* requested_width and requested_height: the schema's dimensions, each part
\* defaulted when the schema lacks it.
RequestedDimensions(v, creative_data) ==
    LET default_height == IF v \in SquareDefault THEN DefaultHeightSquare
                          ELSE DefaultHeightTall
        d == IF "dimensions" \in DOMAIN creative_data THEN creative_data.dimensions
             ELSE [width |-> DefaultWidth, height |-> default_height]
    IN  [width |-> IF "width" \in DOMAIN d THEN d.width ELSE DefaultWidth,
         height |-> IF "height" \in DOMAIN d THEN d.height ELSE default_height]

\* What HTML assembly writes to standard error about the dimensions.  An
\* image that could not be measured is a warning; the variants that read
\* the image from disk compare its size with the requested one, img_memory
\* only reports the size it measured.
DimensionLog(v, requested, measured) ==
    IF ~measured.ok THEN <<"warn_dimensions">>
    ELSE IF v = "img_memory" THEN <<"actual_dimensions">>
    ELSE IF measured.width # requested.width \/ measured.height # requested.height
    THEN <<"requested_dimensions", "actual_dimensions", "dimension_mismatch">>
    ELSE <<"requested_dimensions", "actual_dimensions">>

(***************************************************************************)
(* generate_html_with_ocr_layout.  The container has the size of the       *)
(* generated image when it could be measured and the requested dimensions  *)
(* otherwise; one overlay per box, in the order of ocr_boxes.  The CTA     *)
(* buttons of creative_data are not read.                                  *)
(***************************************************************************)
generate_html_with_ocr_layout(v, url, ocr_boxes, creative_data, measured) ==
    LET requested == RequestedDimensions(v, creative_data)
        creative_width == IF measured.ok THEN measured.width ELSE requested.width
        creative_height == IF measured.ok THEN measured.height ELSE requested.height
    IN  [container |-> [width |-> creative_width, height |-> creative_height],
         image |-> url,
         overlays |-> [i \in 1..Len(ocr_boxes) |->
                          Overlay(v, ocr_boxes[i], creative_width, creative_height)],
         log |-> DimensionLog(v, requested, measured)]

\* The corners of an upright rectangle given in pixels.
Rect(x, y, w, h) ==
    << <<2 * x, 2 * y>>, <<2 * (x + w), 2 * y>>,
       <<2 * (x + w), 2 * (y + h)>>, <<2 * x, 2 * (y + h)>> >>

\* A slanted quadrangle whose corners lie between pixels.
Slanted == << <<1, 3>>, <<101, 1>>, <<103, 41>>, <<3, 43>> >>

\* Quadrangles less than a pixel wide, and less than a pixel high: int()
\* gives the box a width, respectively a height, of 0.
Thin == << <<60, 60>>, <<61, 60>>, <<61, 260>>, <<60, 260>> >>

Flat == << <<60, 60>>, <<140, 60>>, <<140, 61>>, <<60, 61>> >>

Detection(bbox, text, conf) == [bbox |-> bbox, text |-> text, conf |-> conf]

TextSale == <<"S", "a", "l", "e">>

TextShopNow == <<"s", "h", "o", "p", " ", "n", "o", "w">>

TextBuy == <<"B", "u", "y">>

TextClearance == <<"C", "l", "e", "a", "r", "a", "n", "c", "e">>

\* What reader.readtext may report for one piece of text.
Detections ==
    { Detection(Rect(0, 0, 50, 20), TextSale, 95),
      Detection(Rect(0, 0, 50, 20), <<" ">> \o TextSale \o <<" ", "\n">>, 61),
      Detection(Rect(0, 0, 50, 20), TextSale, 60),
      Detection(Rect(0, 0, 50, 20), TextSale, 59),
      Detection(Rect(100, 50, 40, 20), TextShopNow, 95),
      Detection(Rect(100, 50, 90, 30), TextBuy, 90),
      Detection(Rect(20, 50, 40, 20), TextSale, 95),
      Detection(Rect(500, 10, 60, 20), TextSale, 95),
      Detection(Rect(0, 300, 10, 200), TextClearance, 95),
      Detection(Rect(0, 300, 10, 200), <<"S">>, 95),
      Detection(Rect(0, 600, 1000, 1), TextSale, 95),
      Detection(Rect(5, 200, 300, 100), TextSale, 95),
      Detection(Rect(10, 100, 50, 20), <<" ", " ">>, 95),
      Detection(Rect(10, 100, 50, 20), <<>>, 99),
      Detection(Slanted, TextSale, 61),
      Detection(Thin, TextSale, 95),
      Detection(Flat, TextBuy, 95) }

\* The most detections in one reading.
MaxDetections == 2

RECURSIVE SeqsUpTo(_, _)
SeqsUpTo(S, n) ==
    IF n = 0 THEN {<<>>}
    ELSE LET shorter == SeqsUpTo(S, n - 1)
         IN  shorter \cup {Append(s, e) : s \in {t \in shorter : Len(t) = n - 1}, e \in S}

\* A configured CTA button of the schema.
Cta(text, url) ==
    [text |-> text, url |-> url, background |-> "#007bff", color |-> "#fff"]

\* The parts of creative_data that HTML assembly is handed.
CreativeDatas ==
    { [dimensions |-> [width |-> DefaultWidth, height |-> DefaultHeightTall],
       cta_buttons |-> <<>>],
      [cta_buttons |-> <<>>],
      [dimensions |-> [width |-> 200], cta_buttons |-> <<>>],
      [dimensions |-> [width |-> 100, height |-> 100],
       cta_buttons |-> <<Cta(<<"S", "h", "o", "p", " ", "N", "o", "w">>, "https://x")>>],
      [dimensions |-> [width |-> DefaultWidth, height |-> DefaultHeightTall],
       cta_buttons |-> <<Cta(TextBuy, "https://buy"),
                         Cta(<<"S", "h", "o", "p", " ", "N", "o", "w">>, "https://x")>>] }

\* The size measured on the generated image, when it could be read.
Measurements ==
    { [ok |-> FALSE, width |-> 0, height |-> 0],
      [ok |-> TRUE, width |-> 200, height |-> 200],
      [ok |-> TRUE, width |-> 1080, height |-> 1080] }

NoHtml ==
    [container |-> [width |-> 0, height |-> 0], image |-> "", overlays |-> <<>>,
     log |-> <<>>]

\* The module imported by a caller that runs none of main.
Imported(vs) ==
    /\ variant \in vs
    /\ env = "ok"
    /\ argv = <<>>
    /\ pc = "imported"
    /\ io = [out |-> <<>>, err |-> <<>>]
    /\ exitStatus = -1
    /\ steps = <<>>
    /\ calls = NoCalls
    /\ row = Null
    /\ prompt = Null
    /\ schema = Null
    /\ fetched = NoFetch
    /\ doc = "none"

MainUntouched ==
    UNCHANGED <<variant, env, argv, pc, io, exitStatus, steps, calls,
                row, prompt, schema, fetched, doc>>

LayoutInit ==
    /\ Imported(ImageVariants)
    /\ post = PostIdle
    /\ phase1 = Phase1Idle
    /\ duo = DuoIdle
    /\ \E results \in SeqsUpTo(Detections, MaxDetections),
          creative_data \in CreativeDatas, measured \in Measurements :
            layout = [pc |-> "read", results |-> results,
                      creative_data |-> creative_data, measured |-> measured,
                      ocr_boxes |-> <<>>, html |-> NoHtml]

\* ocr_boxes = extract_text_positions(...)
CallExtractTextPositions ==
    /\ layout.pc = "read"
    /\ layout' = [layout EXCEPT !.pc = "boxes",
                                !.ocr_boxes = extract_text_positions(layout.results)]
    /\ UNCHANGED <<post, phase1, duo>>
    /\ MainUntouched

\* generate_html_with_ocr_layout(url, ocr_boxes, creative_data)
CallGenerateHtml ==
    /\ layout.pc = "boxes"
    /\ layout' = [layout EXCEPT
                    !.pc = "html",
                    !.html = generate_html_with_ocr_layout(
                                 variant, "http://img", layout.ocr_boxes,
                                 layout.creative_data, layout.measured)]
    /\ UNCHANGED <<post, phase1, duo>>
    /\ MainUntouched

LayoutNext == CallExtractTextPositions \/ CallGenerateHtml

LayoutSpec == LayoutInit /\ [][LayoutNext]_vars

(***************************************************************************)
(* The responsiveness post-processor of llm_flat, called on its own.       *)
(*                                                                         *)
(* The HTML is a style block (none, or one with or without the container   *)
(* rules) and a sequence of elements; an element is the sequence of its    *)
(* attributes in source order; a style attribute is the sequence of its    *)
(* declarations.  A declaration "margin-left: 5px;" has prefix "margin-",  *)
(* base "left", num 50 (tenths), unit "px" and a closing semicolon; a      *)
(* keyword value ("color: red;") is in word.  The regular expressions of   *)
(* the source work on the text, so "left: 5px;" is found inside            *)
(* "margin-left: 5px;" as well: gone marks a declaration whose matched     *)
(* text was cut out, leaving only its prefix behind.                       *)
(***************************************************************************)
Decl(prefix, base, num, unit, word, semi) ==
    [prefix |-> prefix, base |-> base, num |-> num, unit |-> unit,
     word |-> word, semi |-> semi, gone |-> FALSE]

Px(prefix, base, px) == Decl(prefix, base, 10 * px, "px", "", TRUE)

Attr(name, classes, decls) ==
    [name |-> name, classes |-> classes, decls |-> decls,
     rewritten |-> FALSE, converted |-> <<>>, parts |-> <<>>]

ClassAttr(classes) == Attr("class", classes, <<>>)

StyleAttr(decls) == Attr("style", <<>>, decls)

\* The classes the post-processor looks for.
TargetClasses == {"overlay-text", "cta-button"}

\* rf"{prop}:\s*(\d+(\.\d+)?)\s*px;" matches in the text of declaration d.
PxPattern(prop, d) ==
    ~d.gone /\ d.base = prop /\ d.unit = "px" /\ d.word = "" /\ d.semi

\* f"{value / original * 100:.4f}", in units of 0.0001, from tenths of px.
FormatFour(tenths, original) ==
    (2 * tenths * 100000 + original) \div (2 * original)

\* The original size a property is relative to.
OriginalFor(prop, original_width, original_height) ==
    IF prop \in {"left", "width", "font-size"} THEN original_width ELSE original_height

\* One pass of the loop body for prop: the first match is converted and
\* every match is cut out of style_str.
ConvertProp(st, prop, original_width, original_height) ==
    LET hits == {i \in 1..Len(st.style_str) : PxPattern(prop, st.style_str[i])}
    IN  IF hits = {} THEN st
        ELSE [new_style_parts |->
                  Append(st.new_style_parts,
                         [prop |-> prop,
                          value |-> FormatFour(st.style_str[MinOf(hits)].num,
                                               OriginalFor(prop, original_width,
                                                           original_height)),
                          unit |-> IF prop = "font-size" THEN "vw" ELSE "%"]),
              style_str |-> [i \in 1..Len(st.style_str) |->
                                IF i \in hits
                                THEN [st.style_str[i] EXCEPT !.gone = TRUE]
                                ELSE st.style_str[i]]]

RECURSIVE ConvertProps(_, _, _, _)
ConvertProps(st, props, original_width, original_height) ==
    IF props = <<>> THEN st
    ELSE ConvertProps(ConvertProp(st, Head(props), original_width, original_height),
                      Tail(props), original_width, original_height)

\* style_str.split(';') with the blank parts dropped: what is left of cut
\* declarations runs into the declaration that follows it.  A declaration
\* without its semicolon is the last of its style attribute.
RECURSIVE SplitParts(_, _)
SplitParts(items, junk) ==
    IF items = <<>>
    THEN (IF junk = <<>> THEN <<>> ELSE <<[junk |-> junk, decl |-> <<>>]>>)
    ELSE LET d == Head(items)
         IN  IF d.gone
             THEN SplitParts(Tail(items),
                             IF d.prefix = "" THEN junk ELSE Append(junk, d.prefix))
             ELSE <<[junk |-> junk, decl |-> <<d>>]>> \o SplitParts(Tail(items), <<>>)

\* replace_px_to_percent on the style of a matched element.
replace_px_to_percent(style, original_width, original_height) ==
    LET st == ConvertProps([new_style_parts |-> <<>>, style_str |-> style.decls],
                           <<"left", "top", "width", "height", "font-size">>,
                           original_width, original_height)
    IN  [style EXCEPT !.rewritten = TRUE,
                      !.decls = <<>>,
                      !.converted = st.new_style_parts,
                      !.parts = SplitParts(st.style_str, <<>>)]

\* The element matches
\*   (class="[^"]*(?:overlay-text|cta-button)[^"]*")\s+style="([^"]*)"
\* at attribute i: a class attribute naming a target class with the style
\* attribute right after it.
ClassThenStyle(el, i) ==
    /\ i < Len(el)
    /\ el[i].name = "class"
    /\ \E c \in 1..Len(el[i].classes) : el[i].classes[c] \in TargetClasses
    /\ el[i + 1].name = "style"

\* re.sub over one element: the style of each match is rewritten.
RewriteElement(el, original_width, original_height) ==
    [i \in 1..Len(el) |->
        IF i > 1 /\ ClassThenStyle(el, i - 1)
        THEN replace_px_to_percent(el[i], original_width, original_height)
        ELSE el[i]]

(***************************************************************************)
(* post_process_llm_html.  Non-positive dimensions: the HTML is returned   *)
(* as it is.  With a <style> block, its container and image rules are      *)
(* replaced or added; without one, the else branch reads                   *)
(* new_creative_container_css, which only the if branch assigns:           *)
(* UnboundLocalError.                                                      *)
(***************************************************************************)
post_process_llm_html(html, original_width, original_height) ==
    IF original_width <= 0 \/ original_height <= 0 THEN Ok(html)
    ELSE IF html.style = "none" THEN Raise("UnboundLocalError")
    ELSE Ok([style |-> "responsive",
             elements |-> [e \in 1..Len(html.elements) |->
                              RewriteElement(html.elements[e], original_width,
                                             original_height)]])

\* Elements of a chat reply.
ReplyElements ==
    { << ClassAttr(<<"overlay-text", "foo">>),
         StyleAttr(<<Px("", "left", 100), Px("", "top", 50), Px("", "width", 200),
                     Px("", "height", 40), Px("", "font-size", 20)>>) >>,
      << StyleAttr(<<Px("", "left", 100)>>), ClassAttr(<<"overlay-text">>) >>,
      << ClassAttr(<<"cta-button">>), Attr("id", <<>>, <<>>),
         StyleAttr(<<Px("", "left", 100)>>) >>,
      << ClassAttr(<<"overlay-text">>),
         StyleAttr(<<Px("margin-", "left", 5), Px("", "left", 100),
                     Decl("", "color", 0, "", "red", TRUE)>>) >>,
      << ClassAttr(<<"overlay-text">>),
         StyleAttr(<<Px("", "left", 100), Px("max-", "width", 300),
                     Px("line-", "height", 24)>>) >>,
      << ClassAttr(<<"overlay-text">>),
         StyleAttr(<<Decl("", "left", 105, "px", "", TRUE),
                     Decl("", "top", 500, "%", "", TRUE),
                     Decl("", "font-size", 200, "px", "", FALSE)>>) >>,
      << ClassAttr(<<"creative-image">>), StyleAttr(<<Px("", "left", 100)>>) >>,
      << ClassAttr(<<"cta-button">>),
         StyleAttr(<<Px("", "padding", 4), Px("border-", "width", 2),
                     Decl("", "color", 0, "", "red", TRUE)>>) >>,
      << ClassAttr(<<"overlay-text">>) >> }

\* The most elements in one reply.
MaxElements == 2

\* original_width and original_height as main passes them.
OriginalSizes == { <<1000, 500>>, <<1080, 1920>>, <<0, 500>> }

PostInit ==
    /\ Imported({"llm_flat"})
    /\ layout = LayoutIdle
    /\ phase1 = Phase1Idle
    /\ duo = DuoIdle
    /\ \E style \in {"none", "with_container_rules", "other_rules"},
          elements \in SeqsUpTo(ReplyElements, MaxElements),
          size \in OriginalSizes :
            post = [pc |-> "reply",
                    html |-> [style |-> style, elements |-> elements],
                    original_width |-> size[1], original_height |-> size[2],
                    result |-> Raise("")]

\* final_html = post_process_llm_html(llm_raw_html, creative_width, creative_height)
CallPostProcess ==
    /\ post.pc = "reply"
    /\ post' = [post EXCEPT
                  !.pc = "returned",
                  !.result = post_process_llm_html(post.html, post.original_width,
                                                   post.original_height)]
    /\ UNCHANGED <<layout, phase1, duo>>
    /\ MainUntouched

PostNext == CallPostProcess

PostSpec == PostInit /\ [][PostNext]_vars

\* "; ".join(items), each item a sequence of tokens.
RECURSIVE JoinParts(_)
JoinParts(items) ==
    IF items = <<>> THEN <<>>
    ELSE IF Len(items) = 1 THEN Head(items)
    ELSE Head(items) \o <<";", " ">> \o JoinParts(Tail(items))

\* final_style of a rewritten style attribute, as a sequence of tokens: a
\* converted part is written f"{prop}: {value}%;" and carries its own
\* semicolon, a remaining part is what split(';') left and carries none.
final_style(style) ==
    JoinParts([i \in 1..Len(style.converted) |-> <<"declaration", ";">>]
              \o [i \in 1..Len(style.parts) |-> <<"declaration">>])

\* str.lower(), on the letters the texts of the model are made of.
LowerChar(c) ==
    CASE c = "A" -> "a" [] c = "B" -> "b" [] c = "C" -> "c" [] c = "E" -> "e"
      [] c = "G" -> "g" [] c = "H" -> "h" [] c = "I" -> "i" [] c = "K" -> "k"
      [] c = "N" -> "n" [] c = "S" -> "s"
      [] OTHER -> c

Lower(t) == [i \in 1..Len(t) |-> LowerChar(t[i])]

\* t in s
Contains(s, t) ==
    \E i \in 0..(Len(s) - Len(t)) : SubSeq(s, i + 1, i + Len(t)) = t

(***************************************************************************)
(* Phase 1 of the AI-image renderers: the text parts of main_prompt and    *)
(* the texts list that generate_full_creative builds from the canvas.      *)
(* main_prompt is kept as the sequence of its parts, each with the text    *)
(* the f-string embeds.                                                    *)
(***************************************************************************)
sensitive_terms ==
    << <<"H", "o", "l", "l", "i", "s", "t", "e", "r">>,
       <<"G", "i", "l", "l", "y", " ", "H", "i", "c", "k", "s">>,
       <<"A", "b", "e", "r", "c", "r", "o", "m", "b", "i", "e">>,
       <<"N", "i", "k", "e">>,
       <<"A", "d", "i", "d", "a", "s">> >>

\* What stands for a denylisted text block, CTA and brand name in the prompt.
PlaceholderText ==
    <<"A", "p", "p", "a", "r", "e", "l", " ", "B", "r", "a", "n", "d", " ", "N", "a", "m", "e">>

PlaceholderCta == <<"S", "h", "o", "p", " ", "N", "o", "w">>

PlaceholderBrand ==
    <<"G", "e", "n", "e", "r", "i", "c", " ", "A", "p", "p", "a", "r", "e", "l", " ", "B", "r", "a", "n", "d">>

\* any(term.lower() in text.lower() for term in sensitive_terms)
IsSensitive(text) ==
    \E k \in 1..Len(sensitive_terms) :
        Contains(Lower(text), Lower(sensitive_terms[k]))

\* The variants whose denylist code is live; in img_disk it is commented
\* out and img_memory has none.
Generalizing == {"img_hybrid", "img_clean"}

\* processed_text / processed_cta_text / processed_brand_name
Processed(v, text, placeholder) ==
    IF v \in Generalizing /\ IsSensitive(text) THEN placeholder ELSE text

\* d.get(key, default) of a canvas entry.
Field(d, key, default) == IF key \in DOMAIN d THEN d[key] ELSE default

PromptPart(part, text) == [part |-> part, text |-> text]

\* for block in text_blocks: ...
TextBlockParts(v, blocks) ==
    [i \in 1..Len(blocks) |->
        PromptPart("text_block",
                   Processed(v, Field(blocks[i], "text", <<>>), PlaceholderText))]

\* for cta in cta_buttons: ...; without the denylist code the f-string
\* reads cta.get('text', 'Shop Now').
CtaParts(v, ctas) ==
    [i \in 1..Len(ctas) |->
        IF v \in Generalizing
        THEN PromptPart("cta", Processed(v, Field(ctas[i], "text", <<>>),
                                         PlaceholderCta))
        ELSE PromptPart("cta", Field(ctas[i], "text", PlaceholderCta))]

StartsWithHttp(url) == url \in {"http://logo"}

\* The brand_logo branch: a logo url wins over the alt text.
BrandLogoParts(v, logo) ==
    IF StartsWithHttp(Field(logo, "url", ""))
    THEN << PromptPart("logo_image", <<>>) >>
    ELSE IF Field(logo, "text_alt", <<>>) # <<>>
    THEN << PromptPart("logo_text",
                       Processed(v, logo.text_alt, PlaceholderBrand)) >>
    ELSE <<>>

BrandLogoTexts(logo) ==
    IF ~StartsWithHttp(Field(logo, "url", "")) /\ Field(logo, "text_alt", <<>>) # <<>>
    THEN << logo.text_alt >>
    ELSE <<>>

\* main_prompt and replicate_input["texts"] of generate_full_creative.
replicate_input(v, canvas) ==
    [prompt |-> TextBlockParts(v, canvas.Text_Blocks)
                  \o CtaParts(v, canvas.cta_buttons)
                  \o BrandLogoParts(v, canvas.brand_logo),
     texts |-> [i \in 1..Len(canvas.Text_Blocks) |->
                   Field(canvas.Text_Blocks[i], "text", <<>>)]
                 \o [i \in 1..Len(canvas.cta_buttons) |->
                       Field(canvas.cta_buttons[i], "text", <<>>)]
                 \o BrandLogoTexts(canvas.brand_logo)]

TextNikeSale == <<"N", "I", "K", "E", " ", "S", "a", "l", "e">>

TextBuyAdidas == <<"B", "u", "y", " ", "a", "d", "i", "d", "a", "s">>

TextGilly == <<"G", "i", "l", "l", "y", " ", "h", "i", "c", "k", "s">>

TextAcme == <<"A", "c", "m", "e">>

\* Text_Blocks and cta_buttons entries, brand_logo dicts of a canvas.
CanvasBlocks == { [text |-> TextSale], [text |-> TextNikeSale], [color |-> "red"] }

CanvasCtas == { [text |-> TextBuy], [text |-> TextBuyAdidas], [position |-> "top"] }

CanvasLogos ==
    { [position |-> "top-left"],
      [text_alt |-> TextGilly],
      [text_alt |-> TextAcme],
      [text_alt |-> TextGilly, url |-> "http://logo"],
      [text_alt |-> TextGilly, url |-> ""] }

MaxBlocks == 2

Phase1Init ==
    /\ Imported(ImageVariants)
    /\ layout = LayoutIdle
    /\ post = PostIdle
    /\ duo = DuoIdle
    /\ \E blocks \in SeqsUpTo(CanvasBlocks, MaxBlocks),
          ctas \in SeqsUpTo(CanvasCtas, MaxBlocks), logo \in CanvasLogos :
            phase1 = [pc |-> "canvas",
                      canvas |-> [Text_Blocks |-> blocks, cta_buttons |-> ctas,
                                  brand_logo |-> logo],
                      replicate_input |-> [prompt |-> <<>>, texts |-> <<>>]]

\* The prompt-building part of generate_full_creative(client, creative_data)
BuildReplicateInput ==
    /\ phase1.pc = "canvas"
    /\ phase1' = [phase1 EXCEPT
                    !.pc = "built",
                    !.replicate_input = replicate_input(variant, phase1.canvas)]
    /\ UNCHANGED <<layout, post, duo>>
    /\ MainUntouched

Phase1Next == BuildReplicateInput

Phase1Spec == Phase1Init /\ [][Phase1Next]_vars

(***************************************************************************)
(* Two invocations of one disk-based AI-image renderer at the same time.   *)
(* Both are the same script, so OUTPUT_DIR and the file names in it are    *)
(* the same for both.  An image is known by the creative it was generated  *)
(* for, a document by the creative it was assembled for and by the images  *)
(* its boxes and its measurements were read from.  Each download and each  *)
(* write of the document is taken as one step.                             *)
(***************************************************************************)
Runs == {1, 2}

DiskVariants == {"img_hybrid", "img_clean", "img_disk"}

FULL_CREATIVE_IMAGE_NAME == "full_creative.jpg"

CLEAN_BACKGROUND_IMAGE_NAME == "clean_background.jpg"

FINAL_HTML_NAME == "final_creative.html"

DebugImageName == "easyocr_debug_image.jpg"

\* A path that would differ from run to run.
PathPerRun(r, name) == <<name, r>>

\* os.path.join(OUTPUT_DIR, name) as run r computes it.
PathOf(r, name) == name

Paths ==
    { PathOf(r, name) : r \in Runs,
                        name \in {FULL_CREATIVE_IMAGE_NAME, CLEAN_BACKGROUND_IMAGE_NAME,
                                  FINAL_HTML_NAME, DebugImageName} }

Absent == [kind |-> "absent", of |-> 0]

ImageFor(r) == [kind |-> "image", of |-> r]

\* What a previous invocation left in the output directory.
LeftOver ==
    [p \in Paths |->
        IF p \in {PathOf(r, FINAL_HTML_NAME) : r \in Runs}
        THEN [kind |-> "html", of |-> 0, boxes_of |-> 0, measured_of |-> 0]
        ELSE ImageFor(0)]

DuoInit ==
    /\ Imported(DiskVariants)
    /\ layout = LayoutIdle
    /\ post = PostIdle
    /\ phase1 = Phase1Idle
    /\ \E disk \in {[p \in Paths |-> Absent], LeftOver} :
          duo = [pc |-> [r \in Runs |-> "phase1"],
                 disk |-> disk,
                 ocr_of |-> [r \in Runs |-> 0],
                 stdout |-> [r \in Runs |-> Absent],
                 exit |-> [r \in Runs |-> -1]]

DuoUntouched ==
    /\ UNCHANGED <<layout, post, phase1>>
    /\ MainUntouched

DuoFail(r) ==
    duo' = [duo EXCEPT !.pc[r] = "failed", !.exit[r] = 1]

\* generate_full_creative: the model call, then
\* download_image(output_url, FULL_CREATIVE_IMAGE_PATH)
DuoGenerateFullCreative(r) ==
    /\ duo.pc[r] = "phase1"
    /\ \E ok \in BOOLEAN :
          IF ok
          THEN duo' = [duo EXCEPT
                         !.pc[r] = IF variant = "img_hybrid" THEN "ocr" ELSE "phase2",
                         !.disk[PathOf(r, FULL_CREATIVE_IMAGE_NAME)] = ImageFor(r)]
          ELSE DuoFail(r)
    /\ DuoUntouched

\* generate_clean_background: img_clean downloads the text-free image and
\* raises when that fails, img_disk copies the full creative and only warns.
DuoGenerateCleanBackground(r) ==
    /\ duo.pc[r] = "phase2"
    /\ \E ok \in BOOLEAN :
          IF ok
          THEN duo' = [duo EXCEPT
                         !.pc[r] = "ocr",
                         !.disk[PathOf(r, CLEAN_BACKGROUND_IMAGE_NAME)] = ImageFor(r)]
          ELSE IF variant = "img_clean"
          THEN DuoFail(r)
          ELSE duo' = [duo EXCEPT !.pc[r] = "ocr"]
    /\ DuoUntouched

\* extract_text_positions(FULL_CREATIVE_IMAGE_PATH): cv2.imread of the path,
\* the boxes of what was read, and the debug image written next to it.
DuoExtractTextPositions(r) ==
    /\ duo.pc[r] = "ocr"
    /\ LET img == duo.disk[PathOf(r, FULL_CREATIVE_IMAGE_NAME)]
       IN  IF img.kind = "absent"
           THEN DuoFail(r)
           ELSE duo' = [duo EXCEPT
                          !.pc[r] = "html",
                          !.ocr_of[r] = img.of,
                          !.disk[PathOf(r, DebugImageName)] = img]
    /\ DuoUntouched

\* generate_html_with_ocr_layout: cv2.imread of the full creative for the
\* container size, then the document written to FINAL_HTML_PATH.
DuoGenerateHtml(r) ==
    /\ duo.pc[r] = "html"
    /\ duo' = [duo EXCEPT
                 !.pc[r] = "emit",
                 !.disk[PathOf(r, FINAL_HTML_NAME)] =
                     [kind |-> "html", of |-> r, boxes_of |-> duo.ocr_of[r],
                      measured_of |-> duo.disk[PathOf(r, FULL_CREATIVE_IMAGE_NAME)].of]]
    /\ DuoUntouched

\* with open(FINAL_HTML_PATH, 'r') as f: print(f.read())
DuoEmitHtml(r) ==
    /\ duo.pc[r] = "emit"
    /\ duo' = [duo EXCEPT
                 !.pc[r] = "done",
                 !.stdout[r] = duo.disk[PathOf(r, FINAL_HTML_NAME)],
                 !.exit[r] = 0]
    /\ DuoUntouched

DuoNext ==
    \E r \in Runs :
        \/ DuoGenerateFullCreative(r)
        \/ DuoGenerateCleanBackground(r)
        \/ DuoExtractTextPositions(r)
        \/ DuoGenerateHtml(r)
        \/ DuoEmitHtml(r)

DuoSpec == DuoInit /\ [][DuoNext]_vars

(***************************************************************************)
(* Properties                                                              *)
(***************************************************************************)

\* Step name was executed with the given outcome.
Did(name, outcome) == \E i \in 1..Len(steps) : steps[i] = Step(name, outcome)

\* Step name was executed.
Ran(name) == \E i \in 1..Len(steps) : steps[i].step = name

\* A line with this tag is on standard error.
Logged(tag) == \E i \in 1..Len(io.err) : io.err[i].tag = tag

\* The run is the argparse help request (-h), which renders nothing.
HelpRequested == variant \in LlmVariants /\ ArgparseOutcome(argv) = "help"

\* C1: in a run that renders, of either CLI, standard output stays empty
\* until the run succeeds and then holds the final HTML document and
\* nothing else, written once; every other line of every step is on
\* standard error.
C1_StdoutOnlyFinalHtml ==
    ~HelpRequested =>
        /\ pc = "done" => io.out = <<Msg("html", doc)>>
        /\ pc # "done" => io.out = <<>>
        /\ \A i \in 1..Len(io.err) : io.err[i].tag # "html"

C1_Witness ==
    /\ pc = "done"
    /\ io.out = <<Msg("html", doc)>>
    /\ variant = "img_memory"
    /\ Logged("warn_no_campaign_id")
    /\ Logged("warn_no_background_url")
    /\ Did("html", "download_failed")

\* C2: when the creative fetch finds no row, the run ends with exit status
\* 1, a line quoting the creative id is on standard error, standard output
\* is empty, and the fetch is the last step executed: no campaign-prompt
\* fetch, no mapping, no rendering.
C2_ZeroRowsAborts ==
    Did("fetch", "zero_rows") =>
        /\ pc = "exited"
        /\ exitStatus = 1
        /\ \E i \in 1..Len(io.err) : io.err[i].ref = CreativeIdArg
        /\ io.out = <<>>
        /\ steps[Len(steps)].step = "fetch"
        /\ ~Ran("campaign") /\ ~Ran("map")
        /\ calls.campaign = 0
        /\ schema = Null /\ doc = "none"

C2_Witness ==
    /\ Did("fetch", "zero_rows")
    /\ variant = "img_disk"
    /\ Logged("no_creative_found")
    /\ Logged("Data Error")

\* C3: every run of the LLM-direct CLI that has ended has exit status 0 or
\* 1, status 0 only after the document was written, and a run that ended
\* otherwise wrote nothing to standard output.
C3_ExitStatusZeroOrOne ==
    (variant \in LlmVariants /\ pc \in {"done", "exited"} /\ ~HelpRequested) =>
        /\ exitStatus \in {0, 1}
        /\ exitStatus = 0 <=> pc = "done"
        /\ pc = "exited" => (exitStatus = 1 /\ io.out = <<>>)

\* C4 as stated: the schema's campaign_prompt is the value the database
\* fetch returned whenever it returned, whatever the value; it is the CLI
\* argument when the row has no campaign_id or the fetch raised, and then a
\* warning is logged; the run goes on to mapping.
C4_PromptAsStated ==
    /\ fetched.status = "ok" => prompt = fetched.v
    /\ fetched.status \in {"raised", "skipped"} =>
            /\ prompt = Str(CliPromptArg)
            /\ Logged("warn_campaign_fetch") \/ Logged("warn_no_campaign_id")
    /\ schema # Null => Get(schema, "campaign_prompt", Null) = prompt
    /\ Ran("campaign") => (pc # "exited" \/ steps[Len(steps)].step # "campaign")

\* C4 amended: the database value is used when the fetch returns, except
\* that img_hybrid and img_memory keep the CLI argument when the returned
\* value is empty or null; the CLI argument is used when the row has no
\* campaign_id or the fetch raised; a warning is logged when the fetch
\* raised, and for a missing campaign_id only by img_hybrid and img_memory;
\* the run goes on to mapping, and the schema carries the resolved prompt.
C4_PromptResolution ==
    /\ fetched.status = "ok" =>
            prompt = IF variant \in {"img_hybrid", "img_memory"}
                        /\ fetched.v \in {Str(""), Null}
                     THEN Str(CliPromptArg)
                     ELSE fetched.v
    /\ fetched.status = "raised" =>
            prompt = Str(CliPromptArg) /\ Logged("warn_campaign_fetch")
    /\ fetched.status = "skipped" =>
            /\ prompt = Str(CliPromptArg)
            /\ Logged("warn_no_campaign_id") <=> variant \in {"img_hybrid", "img_memory"}
    /\ schema # Null => Get(schema, "campaign_prompt", Null) = prompt
    /\ Ran("campaign") => (pc # "exited" \/ steps[Len(steps)].step # "campaign")

C4_Witness ==
    /\ variant = "img_hybrid"
    /\ fetched = [status |-> "ok", v |-> Str("")]
    /\ schema # Null
    /\ Get(schema, "campaign_prompt", Null) = Str(CliPromptArg)

\* A step in which an external call failed (transport or service error).
ExternalFailure(st) ==
    \/ st.outcome \in {"unreachable", "run_raised", "no_url", "download_failed"}
    \/ st = Step("llm", "raised")

\* No call site was attempted more than once.
NoRetry == \A site \in DOMAIN calls : calls[site] <= 1

\* C5 as stated: no external call is attempted again, and the step in which
\* an external call failed is the last step of the run, which has exited
\* with status 1.
C5_AnyFailureAborts ==
    /\ NoRetry
    /\ \A i \in 1..Len(steps) :
            ExternalFailure(steps[i]) =>
                (i = Len(steps) /\ pc = "exited" /\ exitStatus = 1)

\* The failures the code absorbs: the campaign-prompt fetch, the copy of the
\* full creative to the clean-background path in img_disk, and the download
\* that measures the image in img_memory.
AbsorbedFailure(st) ==
    \/ st.step = "campaign"
    \/ st.step = "clean" /\ variant = "img_disk"
    \/ st.step = "html"

\* C5 amended: no external call is attempted again.  A failed creative
\* fetch, chat completion, image generation, text-removal run or download
\* of an image the pipeline needs ends the run there with status 1; a
\* failed campaign-prompt fetch, a failed clean-background copy in img_disk
\* and a failed measuring download in img_memory do not end the run.
C5_FailureAbortsUnlessAbsorbed ==
    /\ NoRetry
    /\ \A i \in 1..Len(steps) :
            ExternalFailure(steps[i]) =>
                IF AbsorbedFailure(steps[i])
                THEN ~(i = Len(steps) /\ pc = "exited")
                ELSE (i = Len(steps) /\ pc = "exited" /\ exitStatus = 1)

C5_Witness ==
    /\ variant = "img_disk"
    /\ Did("campaign", "unreachable")
    /\ Did("clean", "download_failed")
    /\ Did("ocr", "unreadable")
    /\ pc = "exited" /\ exitStatus = 1
    /\ calls.campaign = 1 /\ calls.clean_download = 1

ListFields == {"Text_Blocks", "cta_buttons", "brand_colors", "decorative_elements"}

\* C6: in every schema a mapper returns, Canvas.Text_Blocks, cta_buttons,
\* brand_colors and decorative_elements are lists, whatever the raw row
\* held for them.
C6_ListFieldsAreLists ==
    schema # Null => \A f \in ListFields : IsList(CanvasField(schema, f))

\* Every content column of the row, and every content field of its
\* creative_spec, is missing or None.
AllContentAbsent(r) ==
    LET spec == Get(r, "creative_spec", Dict(<<>>))
        canvas == Get(spec, "Canvas", Dict(<<>>))
    IN  /\ \A i \in 1..Len(ContentColumns) : IsNone(Get(r, ContentColumns[i], Null))
        /\ IsDict(spec) /\ IsDict(canvas)
        /\ \A f \in {"placement", "dimensions", "format"} : IsNone(Get(spec, f, Null))
        /\ \A i \in 1..Len(CanvasFields) : IsNone(Get(canvas, CanvasFields[i], Null))
        /\ \A f \in {"Imagery", "brand_logo"} : IsNone(Get(canvas, f, Null))

\* C7: mapping a row whose content fields are all absent returns a schema
\* with placement "social" or "social_media", dimensions 1080 by 1080 or
\* 1080 by 1920, format "static", layout_grid "free", the default brand
\* logo, and every list field empty.
C7_DefaultsForAbsentContent ==
    (Ran("map") /\ AllContentAbsent(row)) =>
        /\ schema # Null
        /\ Get(schema, "placement", Null) \in {Str("social"), Str("social_media")}
        /\ Get(schema, "dimensions", Null) \in
                {Dimensions(DefaultWidth, DefaultHeightSquare),
                 Dimensions(DefaultWidth, DefaultHeightTall)}
        /\ Get(schema, "format", Null) = Str("static")
        /\ CanvasField(schema, "layout_grid") = Str("free")
        /\ CanvasField(schema, "brand_logo") = DefaultBrandLogo
        /\ \A f \in ListFields : CanvasField(schema, f) = List(<<>>)

\* The brand_colors value the variant's mapper reads from the row.
RawBrandColors ==
    IF variant \in NestedMappers
    THEN Get(Get(Get(row, "creative_spec", Dict(<<>>)), "Canvas", Dict(<<>>)),
             "brand_colors", Null)
    ELSE Get(row, "brand_colors", Null)

\* C8: a raw brand_colors dict maps to the list of its primary, accent and
\* secondary values, those that are present, in that order, whatever the
\* order of the keys in the dict.
C8_DictColorsInFixedOrder ==
    (schema # Null /\ IsDict(RawBrandColors)) =>
        LET raw == RawBrandColors
            one(key) == IF Has(raw, key) THEN <<Get(raw, key, Null)>> ELSE <<>>
        IN  CanvasField(schema, "brand_colors")
                = List(one("primary") \o one("accent") \o one("secondary"))

\* Plain text: a non-empty str that is not a JSON document.
PlainText(v) == IsStr(v) /\ v.s # "" /\ ~JsonLoads(v.s).ok

\* C9: a plain-text placement, format, slogan or legal_disclaimer of the
\* raw row is the value of that field in the schema, not the default.
C9_PlainTextKept ==
    schema # Null =>
        LET spec == Get(row, "creative_spec", Dict(<<>>))
            canvas == Get(spec, "Canvas", Dict(<<>>))
            nested == variant \in NestedMappers
            kept(raw, mapped) == PlainText(raw) => mapped = raw
        IN  /\ kept(IF nested THEN Get(spec, "placement", Null)
                    ELSE Get(row, "placement", Null),
                    Get(schema, "placement", Null))
            /\ kept(IF nested THEN Get(spec, "format", Null)
                    ELSE Get(row, "format", Null),
                    Get(schema, "format", Null))
            /\ kept(IF nested THEN Get(canvas, "slogans", Null)
                    ELSE Get(row, "slogan", Null),
                    CanvasField(schema, "slogans"))
            /\ kept(IF nested THEN Get(canvas, "legal_disclaimer", Null)
                    ELSE Get(row, "legal_disclaimer", Null),
                    CanvasField(schema, "legal_disclaimer"))

\* C10: in the variants with the nested mapper, a row whose creative_spec
\* is present and not an object ends the run in the mapping step with a
\* "Data Error" line on standard error and exit status 1.
C10_BadCreativeSpecIsDataError ==
    (/\ variant \in NestedMappers
     /\ Ran("map")
     /\ Has(row, "creative_spec")
     /\ ~IsDict(Get(row, "creative_spec", Null))) =>
        /\ pc = "exited" /\ exitStatus = 1
        /\ steps[Len(steps)].step = "map"
        /\ Logged("Data Error")

\* The row's malformation, if any, is in individual content fields: the
\* containers the nested mapper reads them from are objects.
FieldLevelRow ==
    LET spec == Get(row, "creative_spec", Dict(<<>>))
    IN  variant \in NestedMappers =>
            (IsDict(spec) /\ IsDict(Get(spec, "Canvas", Dict(<<>>))))

\* The steps in which a content field of the row makes the run fail: the
\* mapper raising, main reading the mapped dimensions, and the image prompt
\* being built from the schema.
FieldFailure(st) ==
    st \in {Step("map", "raised"), Step("map", "bad_dimensions"),
            Step("image", "prompt_raised")}

\* C11: whatever the individual content fields of the raw row hold, the
\* mapper raises nothing and the renderer does not fail on the mapped
\* content: no run ends with exit status 1 because of such a field.
C11_MalformedFieldNeverFatal ==
    FieldLevelRow => \A i \in 1..Len(steps) : ~FieldFailure(steps[i])

\* t is s without its leading and trailing whitespace.
TrimmedFrom(s, t) ==
    /\ t # <<>> => (Head(t) \notin Whitespace /\ t[Len(t)] \notin Whitespace)
    /\ \E a \in 0..Len(s) :
            /\ a + Len(t) <= Len(s)
            /\ SubSeq(s, a + 1, a + Len(t)) = t
            /\ \A i \in (1..a) \cup ((a + Len(t) + 1)..Len(s)) : s[i] \in Whitespace

\* The positions of the detections the filter has to keep.
KeptPositions(results) ==
    {i \in 1..Len(results) :
        /\ results[i].conf > ConfidenceThreshold
        /\ \E j \in 1..Len(results[i].text) : results[i].text[j] \notin Whitespace}

\* C12: the boxes returned by the OCR extraction are, one for one, the
\* detections with confidence strictly above 0.6 and text that is not
\* blank after trimming, and each box carries the trimmed text; a detection
\* at confidence exactly 0.6 or with blank text is dropped.
C12_RetainedDetections ==
    layout.pc \in {"boxes", "html"} =>
        LET kept == KeptPositions(layout.results)
            n == Len(layout.ocr_boxes)
        IN  /\ n = Cardinality(kept)
            /\ \E f \in [1..n -> kept] :
                    /\ \A k, l \in 1..n : f[k] = f[l] => k = l
                    /\ \A k \in 1..n :
                            /\ TrimmedFrom(layout.results[f[k]].text, layout.ocr_boxes[k].text)
                            /\ layout.ocr_boxes[k].text # <<>>
                            /\ layout.ocr_boxes[k].conf = layout.results[f[k]].conf
                            /\ layout.ocr_boxes[k].conf > ConfidenceThreshold

C12_Witness ==
    /\ layout.pc = "boxes"
    /\ layout.results =
            << Detection(Rect(0, 0, 50, 20), TextSale, 60),
               Detection(Rect(0, 0, 50, 20), <<" ">> \o TextSale \o <<" ", "\n">>, 61) >>
    /\ Len(layout.ocr_boxes) = 1
    /\ layout.ocr_boxes[1].text = TextSale
    /\ layout.ocr_boxes[1].conf = 61

\* C13: the returned boxes are in ascending (y, x) order, boxes with equal
\* (y, x) keep the order of their detections, and the overlays of the
\* document follow the order of the boxes.
C13_ReadingOrder ==
    layout.pc \in {"boxes", "html"} =>
        LET boxes == layout.ocr_boxes
            kept == SelectSeq(layout.results, Retained)
            detected == [i \in 1..Len(kept) |-> BoxOf(kept[i])]
        IN  /\ \A k \in 1..(Len(boxes) - 1) :
                    \/ boxes[k].y < boxes[k + 1].y
                    \/ boxes[k].y = boxes[k + 1].y /\ boxes[k].x <= boxes[k + 1].x
            /\ \A k \in 1..Len(boxes) :
                    LET same_key(b) == b.y = boxes[k].y /\ b.x = boxes[k].x
                    IN  SelectSeq(boxes, same_key) = SelectSeq(detected, same_key)
            /\ layout.pc = "html" =>
                    /\ Len(layout.html.overlays) = Len(boxes)
                    /\ \A k \in 1..Len(boxes) :
                            /\ layout.html.overlays[k].text = boxes[k].text
                            /\ layout.html.overlays[k].font_size = FontSize(boxes[k])

C13_Witness ==
    /\ layout.pc = "html"
    /\ layout.results =
            << Detection(Rect(100, 50, 40, 20), TextShopNow, 95),
               Detection(Rect(500, 10, 60, 20), TextSale, 95) >>
    /\ Len(layout.html.overlays) = 2
    /\ layout.ocr_boxes[1].y = 10 /\ layout.ocr_boxes[2].y = 50
    /\ layout.html.overlays[1].text = TextSale
    /\ layout.html.overlays[2].text = TextShopNow

\* The box is 200 high and 10 wide and its text has more characters than
\* are estimated to fit on a line (width / (0.9 * height * 0.6)).
NarrowTallOverfull(box) ==
    /\ box.height = 200 /\ box.width = 10
    /\ 54 * box.height * Len(box.text) > 100 * box.width

C15_OverlayInsideContainer ==
    layout.pc = "html" =>
        \A k \in 1..Len(layout.ocr_boxes) :
            LET box == layout.ocr_boxes[k]
                el == layout.html.overlays[k]
                container == layout.html.container
            IN  /\ el.left = (IF box.x - 5 > 0 THEN box.x - 5 ELSE 0)
                /\ el.top = (IF box.y - 4 > 0 THEN box.y - 4 ELSE 0)
                /\ el.left >= 0 /\ el.top >= 0
                /\ el.left + el.width <= container.width
                /\ el.top + el.height <= container.height

C15_Witness ==
    /\ layout.pc = "html"
    /\ layout.html.container = [width |-> 200, height |-> 200]
    /\ Len(layout.ocr_boxes) = 1
    /\ layout.ocr_boxes[1].x = 0 /\ layout.ocr_boxes[1].y = 0
    /\ layout.ocr_boxes[1].width = 50 /\ layout.ocr_boxes[1].height = 20
    /\ layout.html.overlays[1].left = 0 /\ layout.html.overlays[1].top = 0
    /\ layout.html.overlays[1].width = 60 /\ layout.html.overlays[1].height = 28

\* The text lowercased and trimmed.
Normalized(t) == Strip([i \in 1..Len(t) |-> LowerChar(t[i])])

\* The box's text and the CTA's text match after normalisation.
CtaMatches(box, cta) ==
    \/ Contains(Normalized(box.text), Normalized(cta.text))
    \/ Contains(Normalized(cta.text), Normalized(box.text))

\* C20: in the assembled document, the overlay of a box whose normalised
\* text contains or is contained in the normalised text of a configured
\* CTA is an anchor whose href is the url of the first such CTA, not a div.
C20_CtaBoxIsAnchor ==
    layout.pc = "html" =>
        \A k \in 1..Len(layout.ocr_boxes) :
            LET ctas == layout.creative_data.cta_buttons
                hits == {j \in 1..Len(ctas) : CtaMatches(layout.ocr_boxes[k], ctas[j])}
            IN  hits # {} =>
                    /\ layout.html.overlays[k].tag = "a"
                    /\ layout.html.overlays[k].href = ctas[MinOf(hits)].url

\* The post-processor returned a rewritten document.
Rewrote ==
    /\ post.pc = "returned"
    /\ post.original_width > 0 /\ post.original_height > 0
    /\ post.result.ok

\* The properties the post-processor converts.
ConvertedProps == {"left", "top", "width", "height", "font-size"}

\* d is one of the five properties with a value in pixels.
PixelValued(d) == d.prefix = "" /\ d.base \in ConvertedProps /\ d.unit = "px"

\* The attribute is a class attribute that names a target class.
NamesTarget(a) ==
    a.name = "class" /\ \E c \in 1..Len(a.classes) : a.classes[c] \in TargetClasses

\* value, in units of 0.0001, is tenths/10 / original * 100 to four decimals.
IsPercentOf(value, tenths, original) ==
    /\ 2 * value * original <= 2 * tenths * 100000 + original
    /\ 2 * value * original >= 2 * tenths * 100000 - original

\* The style attribute still holds declaration d as written.
Holds(style, d) ==
    IF style.rewritten
    THEN \E p \in 1..Len(style.parts) :
            style.parts[p].junk = <<>> /\ style.parts[p].decl = <<d>>
    ELSE \E k \in 1..Len(style.decls) : style.decls[k] = d

\* C16: in every element whose class attribute names overlay-text or
\* cta-button, wherever its style attribute stands, each left, top, width,
\* height and font-size in pixels is replaced by its share of the original
\* width or height (percent, vw for font-size, four decimals) and no pixel
\* value is left for these properties.
C16_PixelsBecomeRelative ==
    Rewrote =>
        \A e \in 1..Len(post.html.elements) :
            LET el == post.html.elements[e]
                out == post.result.v.elements[e]
            IN  \A i, j \in 1..Len(el) :
                    (NamesTarget(el[i]) /\ el[j].name = "style") =>
                        \A k \in 1..Len(el[j].decls) :
                            LET d == el[j].decls[k]
                            IN  PixelValued(d) =>
                                    /\ ~Holds(out[j], d)
                                    /\ \E c \in 1..Len(out[j].converted) :
                                            /\ out[j].converted[c].prop = d.base
                                            /\ out[j].converted[c].unit =
                                                  (IF d.base = "font-size" THEN "vw" ELSE "%")
                                            /\ IsPercentOf(
                                                  out[j].converted[c].value, d.num,
                                                  IF d.base \in {"top", "height"}
                                                  THEN post.original_height
                                                  ELSE post.original_width)

\* C17: for a reply without a <style> block the post-processor returns
\* normally, and the document it returns has the responsive style block.
C17_MissingStyleSynthesized ==
    (/\ post.pc = "returned"
     /\ post.original_width > 0 /\ post.original_height > 0
     /\ post.html.style = "none") =>
        /\ post.result.ok
        /\ post.result.v.style = "responsive"

\* C18: where the post-processor rewrites a style attribute, every
\* declaration that is not a left, top, width, height or font-size in
\* pixels is still there afterwards with its name and value.
C18_OtherDeclarationsKept ==
    Rewrote =>
        \A e \in 1..Len(post.html.elements) :
            LET el == post.html.elements[e]
                out == post.result.v.elements[e]
            IN  \A j \in 1..Len(el) :
                    (el[j].name = "style" /\ out[j].rewritten) =>
                        \A k \in 1..Len(el[j].decls) :
                            ~PixelValued(el[j].decls[k]) => Holds(out[j], el[j].decls[k])

\* A credential the entry point requires is missing from the environment.
MissingCredential ==
    \/ env = "no_supabase_creds"
    \/ variant \in ImageVariants /\ env = "no_replicate_token"

\* C19: when a required credential is missing (database URL or key; in
\* the AI-image variants also the image-model token), the run does no work
\* at all: no database read, no model call, no download, nothing on
\* standard output; and it ends with a message on standard error and exit
\* status 1 before the arguments are read.
C19_MissingCredentialStopsFirst ==
    MissingCredential =>
        /\ calls = NoCalls
        /\ io.out = <<>>
        /\ pc \in {"boot", "client", "exited"}
        /\ pc = "exited" =>
                /\ exitStatus = 1
                /\ Logged("err_supabase_env") \/ Logged("err_replicate_token")

\* The steps of main in an AI-image run, in the order main calls them; only
\* img_memory retrieves the image in a step of its own, the other variants
\* download it at the end of Phase 1.
Pipeline ==
    IF variant = "img_memory"
    THEN <<"fetch", "campaign", "map", "image", "download", "ocr", "html", "emit">>
    ELSE <<"fetch", "campaign", "map", "image", "ocr", "html", "emit">>

\* The executed steps that belong to the pipeline, in execution order.
PipelineSteps ==
    SelectSeq(steps, LAMBDA st : \E k \in 1..Len(Pipeline) : Pipeline[k] = st.step)

\* The step returned to main: the fetch found the row, the prompt was
\* resolved (from the database or the command line), the HTML was assembled,
\* any other step ended without an exception.
Succeeded(st) ==
    CASE st.step = "fetch" -> st.outcome = "found"
      [] st.step = "campaign" -> st.outcome \in {"db", "zero_rows", "unreachable", "skipped"}
      [] st.step = "html" -> st.outcome \in {"ok", "download_failed"}
      [] OTHER -> st.outcome = "ok"

\* C22: in a run of an AI-image variant the pipeline steps executed so far
\* are the first steps of fetch, campaign-prompt resolution, mapping, image
\* synthesis, image retrieval, text detection, HTML assembly, emission, in
\* that order and each at most once; every step but the last one executed
\* has succeeded; the image was downloaded before text detection ran; and
\* when image synthesis raised or returned no url, text detection and HTML
\* assembly did not run and standard output is empty.
C22_StrictPhaseOrder ==
    variant \in ImageVariants =>
        /\ Len(PipelineSteps) <= Len(Pipeline)
        /\ \A i \in 1..Len(PipelineSteps) :
                /\ PipelineSteps[i].step = Pipeline[i]
                /\ i < Len(PipelineSteps) => Succeeded(PipelineSteps[i])
        /\ Ran("ocr") => calls.image = 1 /\ calls.image_download + calls.ocr_download = 1
        /\ Ran("emit") => (pc = "done" /\ io.out = <<Msg("html", "ocr_layout")>>)
        /\ (Did("image", "run_raised") \/ Did("image", "no_url")) =>
                /\ ~Ran("ocr") /\ ~Ran("html") /\ ~Ran("emit")
                /\ calls.image_download = 0 /\ calls.ocr_download = 0
                /\ io.out = <<>>
                /\ pc = "exited" /\ exitStatus = 1

C22_Witness ==
    /\ variant = "img_memory"
    /\ Did("campaign", "unreachable")
    /\ Did("download", "ok")
    /\ Did("ocr", "ok")
    /\ Ran("emit")
    /\ Len(PipelineSteps) = Len(Pipeline)

\* The last executed step ended the run with an exception of an external
\* call: a database, image-model or download call that failed, or a
\* downloaded composite image the OCR step could not decode.
ExternalCallFailed ==
    /\ pc = "exited"
    /\ steps # <<>>
    /\ LET st == steps[Len(steps)]
       IN  \/ ExternalFailure(st) /\ ~AbsorbedFailure(st)
           \/ st = Step("ocr", "unreadable")

\* C27: in the AI-image variants a run ended by an external-call failure,
\* the failure to decode the composite image for OCR included, has exit
\* status 1 and the "unexpected error" line on standard error, and neither
\* the "Data Error" nor the "Error" line; a "Data Error" line is printed
\* only when the creative fetch found no row or the mapper rejected the row.
C27_ExternalFailureIsUnexpected ==
    variant \in ImageVariants =>
        /\ ExternalCallFailed =>
                /\ exitStatus = 1
                /\ Logged("unexpected error")
                /\ ~Logged("Data Error")
                /\ ~Logged("Error")
        /\ Logged("Data Error") => (Did("fetch", "zero_rows") \/ Did("map", "raised"))

\* C23: the font size of every emitted overlay is at least 10 and at most
\* 80, whatever the width, height and text length of its box, boxes of
\* height 0 and boxes of width 0 included.
C23_FontSizeWithinLimits ==
    layout.pc = "html" =>
        \A i \in 1..Len(layout.html.overlays) :
            LET f == layout.html.overlays[i].font_size
            IN  /\ f.d > 0
                /\ ~FracLess(f, Frac(MinFontSize, 1))
                /\ ~FracLess(Frac(MaxFontSize, 1), f)

\* One document with a box of height 0 and a box of width 0, both at the
\* lower limit, and one with a box at the upper limit.
C23_Witness ==
    /\ layout.pc = "html"
    /\ Len(layout.ocr_boxes) = 2
    /\ \E i, j \in 1..2 :
            /\ layout.ocr_boxes[i].height = 0 /\ layout.ocr_boxes[i].width > 0
            /\ layout.ocr_boxes[j].width = 0 /\ layout.ocr_boxes[j].height > 0
            /\ FracEq(layout.html.overlays[i].font_size, Frac(MinFontSize, 1))
            /\ FracEq(layout.html.overlays[j].font_size, Frac(MaxFontSize, 1))

\* The assembled document logged a line of this kind.
LayoutLogged(tag) == \E i \in 1..Len(layout.html.log) : layout.html.log[i] = tag

\* C25: the container of the assembled document has the size measured on
\* the generated image when the image could be measured, and the requested
\* size (the schema's dimensions, each part defaulted) when it could not;
\* a measured size that differs from the requested one is logged as a
\* dimension mismatch, and the document is assembled all the same.
C25_ContainerDimensions ==
    layout.pc = "html" =>
        LET requested == RequestedDimensions(variant, layout.creative_data)
            measured == layout.measured
            actual == [width |-> measured.width, height |-> measured.height]
        IN  /\ measured.ok => layout.html.container = actual
            /\ ~measured.ok => layout.html.container = requested
            /\ (measured.ok /\ actual # requested) => LayoutLogged("dimension_mismatch")
            /\ Len(layout.html.overlays) = Len(layout.ocr_boxes)

\* The box lies inside an image of the given size.
WithinImage(box, size) ==
    /\ box.x + box.width <= size.width
    /\ box.y + box.height <= size.height

\* C30: in an assembled document whose boxes were read from the image that
\* was generated (so that they lie inside it whenever it could be measured),
\* every overlay has a width and a height above zero, also when the
\* container has the requested dimensions because the image could not be
\* measured.
C30_OverlaysHavePositiveSize ==
    (/\ layout.pc = "html"
     /\ layout.measured.ok =>
            \A i \in 1..Len(layout.ocr_boxes) :
                WithinImage(layout.ocr_boxes[i], layout.measured)) =>
        \A i \in 1..Len(layout.html.overlays) :
            /\ layout.html.overlays[i].width > 0
            /\ layout.html.overlays[i].height > 0

\* C28: the style attribute the post-processor writes back has no two
\* semicolons in a row, however many properties were converted and however
\* many declarations were kept.
C28_NoEmptyDeclaration ==
    Rewrote =>
        \A e \in 1..Len(post.result.v.elements) :
            \A j \in 1..Len(post.result.v.elements[e]) :
                LET style == post.result.v.elements[e][j]
                    text == final_style(style)
                IN  style.rewritten =>
                        \A t \in 1..(Len(text) - 1) :
                            ~(text[t] = ";" /\ text[t + 1] = ";")

\* The entries of the raw imagery array whose type is "background".
BackgroundEntries(imagery) ==
    { i \in 1..Len(imagery.e) :
        IsDict(imagery.e[i]) /\ Get(imagery.e[i], "type", Null) = Str("background") }

\* C26: in a schema mapped by a flat mapper from a row whose imagery is an
\* array, Canvas.Imagery.background_image_url is the url of the first entry
\* of type "background", and Canvas.background.image holds the same value
\* whenever it is set; with no such entry both are null.
C26_FirstBackgroundEntry ==
    (/\ variant \in FlatMappers
     /\ schema # Null
     /\ IsList(Get(row, "imagery", Null))) =>
        LET imagery == Get(row, "imagery", Null)
            background_image_url ==
                Get(CanvasField(schema, "Imagery"), "background_image_url", Null)
            image == Get(CanvasField(schema, "background"), "image", Null)
        IN  IF BackgroundEntries(imagery) = {}
            THEN background_image_url = Null /\ image = Null
            ELSE /\ background_image_url =
                        Get(imagery.e[MinOf(BackgroundEntries(imagery))], "url", Null)
                 /\ Truthy(background_image_url) => image = background_image_url

\* C29: the mapping step leaves the raw creative row as it was.
C29_MapperLeavesRowUnchanged == [][pc = "map" => row' = row]_vars

\* Some part of the prompt embeds the text.
Embeds(main_prompt, text) ==
    \E k \in 1..Len(main_prompt) : Contains(main_prompt[k].text, text)

\* The entry's denylisted text is replaced by the placeholder in its part of
\* the prompt, appears nowhere in the prompt, and is what texts carries.
Replaced(built, entry, at, placeholder) ==
    ("text" \in DOMAIN entry /\ IsSensitive(entry.text)) =>
        /\ built.prompt[at].text = placeholder
        /\ ~Embeds(built.prompt, entry.text)
        /\ built.texts[at] = entry.text

\* The same for the alt text of the brand logo, which has a part of its own
\* only when no logo url is given.
ReplacedLogo(built, logo, at) ==
    ("text_alt" \in DOMAIN logo /\ IsSensitive(logo.text_alt)) =>
        /\ ~Embeds(built.prompt, logo.text_alt)
        /\ Len(built.prompt) = at =>
              /\ built.prompt[at].part = "logo_image"
                    \/ built.prompt[at].text = PlaceholderBrand
              /\ built.prompt[at].part = "logo_text" =>
                    built.texts[at] = logo.text_alt

\* C24: once the image prompt is built, every text block text, CTA text and
\* brand-logo alt text that contains a denylisted brand name (ignoring
\* case) stands in the prompt as its placeholder, so that the prompt embeds
\* the original text nowhere, while the texts list still carries the
\* original text.
C24_DenylistedTextReplaced ==
    phase1.pc = "built" =>
        LET canvas == phase1.canvas
            built == phase1.replicate_input
            nb == Len(canvas.Text_Blocks)
            nc == Len(canvas.cta_buttons)
        IN  /\ \A i \in 1..nb :
                  Replaced(built, canvas.Text_Blocks[i], i, PlaceholderText)
            /\ \A i \in 1..nc :
                  Replaced(built, canvas.cta_buttons[i], nb + i, PlaceholderCta)
            /\ ReplacedLogo(built, canvas.brand_logo, nb + nc + 1)

\* C24 in the variants whose denylist code is live.
C24_InGeneralizingVariants ==
    variant \in Generalizing => C24_DenylistedTextReplaced

\* A prompt was built from a canvas with a denylisted text block, CTA and
\* logo alt text, by a variant with the denylist live.
C24_Reached ==
    /\ phase1.pc = "built"
    /\ variant \in Generalizing
    /\ \E i \in 1..Len(phase1.canvas.Text_Blocks) :
          phase1.canvas.Text_Blocks[i] = [text |-> TextNikeSale]
    /\ \E i \in 1..Len(phase1.canvas.cta_buttons) :
          phase1.canvas.cta_buttons[i] = [text |-> TextBuyAdidas]
    /\ phase1.canvas.brand_logo = [text_alt |-> TextGilly]

\* Run r has just left the step at pc value from for the step at one of to.
Moved(r, from, to) == duo.pc[r] = from /\ duo'.pc[r] \in to

\* C21: two concurrent invocations of a disk-based renderer use the same
\* paths with no protection, so the last writer wins: the image a run has
\* downloaded and the document it has written are what the other run finds
\* at its own path, and what a run passes to OCR or prints is whatever
\* either run wrote there last.
C21_LastWriterWins ==
    [][\A r \in Runs, q \in Runs :
          /\ Moved(r, "phase1", {"phase2", "ocr"}) =>
                duo'.disk[PathOf(q, FULL_CREATIVE_IMAGE_NAME)] = ImageFor(r)
          /\ Moved(r, "html", {"emit"}) =>
                duo'.disk[PathOf(q, FINAL_HTML_NAME)].of = r
          /\ Moved(r, "ocr", {"html"}) =>
                duo'.ocr_of[r] = duo.disk[PathOf(q, FULL_CREATIVE_IMAGE_NAME)].of
          /\ Moved(r, "emit", {"done"}) =>
                duo'.stdout[r] = duo.disk[PathOf(q, FINAL_HTML_NAME)]]_vars

\* A run has exited with status 0 after passing the other run's image to
\* OCR and printing the document the other run assembled.
C21_Witness ==
    \E r \in Runs :
        /\ duo.pc[r] = "done"
        /\ duo.exit[r] = 0
        /\ duo.ocr_of[r] = 3 - r
        /\ duo.stdout[r].kind = "html"
        /\ duo.stdout[r].of = 3 - r

====
